---- MODULE Spec2Model ----
(***************************************************************************)
(* Model of the query execution bridge of redash-mcp (src/src/index.ts):   *)
(* RedashClient.executeQuery, RedashClient.executeAdhocQuery and the       *)
(* polling loop RedashClient.pollQueryResults they share.                  *)
(*                                                                         *)
(* One invocation is followed from the call to its return or throw.  Each  *)
(* action is one resumption of the async function: the awaited promise     *)
(* settles and the code runs up to its next await, return or throw.        *)
(* Strings built by template literals are sequences of string tokens, so   *)
(* that prefixes and containment can be computed.                          *)
(***************************************************************************)
EXTENDS Integers, Sequences, FiniteSets, TLC

VARIABLES
    pc,         \* position of the invocation: idle, post, poll, fetch, sleep, done
    call,       \* the operation invoked and its arguments
    now,        \* Date.now()
    jobId,      \* pollQueryResults: parameter jobId
    startTime,  \* pollQueryResults: const startTime
    req,        \* the HTTP request the invocation is awaiting
    posted,     \* the execution POST that was issued
    lastPost,   \* the settled execution POST
    nPost,      \* requests issued so far: execution POSTs
    nPoll,      \*   GET /api/jobs/{jobId}
    nFetch,     \*   GET /api/query_results/{id}
    nPending,   \* poll responses received that carried a job with a status other than 3 and 4
    lastPoll,   \* the last settled job-status poll
    lastFetch,  \* the settled result fetch
    pollThrown, \* the error that left pollQueryResults
    outcome,    \* how the invocation ended
    sent,       \* the requests issued outside executeQuery and executeAdhocQuery, in order
    settled,    \* the last settled request of sent
    env,        \* process.env, as the constructor reads it
    client,     \* what the constructor handed to axios.create
    tool,       \* the tools/call request being handled
    envelope,   \* what the tools/call handler returned
    inv,        \* the local state of each of the invocations that run concurrently
    resource    \* the resources/list or resources/read request being handled, and its result

vars == <<pc, call, now, jobId, startTime, req, posted, lastPost, nPost, nPoll, nFetch,
          nPending, lastPoll, lastFetch, pollThrown, outcome, sent, settled, env, client,
          tool, envelope, inv, resource>>

\* The state of one run of executeQuery or executeAdhocQuery, and the rest
bridgeVars == <<now, jobId, startTime, posted, lastPost, nPost, nPoll, nFetch, nPending,
                lastPoll, lastFetch, pollThrown>>
gatewayVars == <<sent, settled>>
configVars == <<env, client>>
toolVars == <<tool, envelope>>
handlerVars == <<inv, resource>>

----------------------------------------------------------------------------
(* Bounds of the model *)

MaxQueryId == 1
MaxJobId == 1
MaxResultId == 1
MaxDelaySteps == 1
MaxHeaders == 2
MaxFields == 2
MaxListed == 2

(* Program constants *)

DefaultTimeout == 60000
DefaultInterval == 1000
RequestTimeout == 30000

\* A request settles at once or after k request timeouts; a timer fires on
\* time or that much late.
Delays == {k * RequestTimeout : k \in 0..MaxDelaySteps}

----------------------------------------------------------------------------
(* JavaScript values *)

Undefined == [t |-> "undefined", v |-> ""]
Num(n) == [t |-> "number", v |-> ToString(n)]
Str(s) == [t |-> "string", v |-> s]
Obj(name) == [t |-> "object", v |-> name]
Null == [t |-> "null", v |-> "null"]
Bool(b) == [t |-> "boolean", v |-> IF b THEN "true" ELSE "false"]
Arr(name) == [t |-> "array", v |-> name]

\* ToBoolean, as used by if (x) and x || y
Truthy(x) ==
    /\ x.t # "undefined"
    /\ x.t # "null"
    /\ ~(x.t = "boolean" /\ x.v = "false")
    /\ ~(x.t = "string" /\ x.v = "")
    /\ ~(x.t = "number" /\ x.v = "0")

\* x === y
StrictEq(x, y) == x = y

\* x || y
OrElse(x, y) == IF Truthy(x) THEN x ELSE y

\* `${x}`
Template(x) ==
    CASE x.t = "undefined" -> "undefined"
      [] x.t = "object" -> "[object Object]"
      [] OTHER -> x.v

\* JSON.stringify(x)
JSONstringify(x) ==
    CASE x.t = "undefined" -> "undefined"
      [] x.t = "object" -> "{" \o x.v \o "}"
      [] x.t = "string" -> "\"" \o x.v \o "\""
      [] OTHER -> x.v

StartsWith(msg, prefix) ==
    /\ Len(msg) >= Len(prefix)
    /\ SubSeq(msg, 1, Len(prefix)) = prefix

Contains(msg, token) == \E i \in DOMAIN msg : msg[i] = token

----------------------------------------------------------------------------
(* Errors.  message is the token sequence of error.message; the other      *)
(* fields are those of AxiosError that the handlers read.  Everything the  *)
(* HTTP client or the code throws is an instance of Error.                 *)

NoData == [message |-> Undefined, error |-> Undefined, self |-> Undefined]

PlainError(msg) ==
    [isAxios |-> FALSE, message |-> msg, hasResponse |-> FALSE, status |-> 0,
     data |-> NoData, hasRequest |-> FALSE]

AxiosError(msg, hasResponse, status, data, hasRequest) ==
    [isAxios |-> TRUE, message |-> <<msg>>, hasResponse |-> hasResponse,
     status |-> status, data |-> data, hasRequest |-> hasRequest]

NoError == PlainError(<<>>)

\* errorData?.message || errorData?.error || JSON.stringify(errorData)
ErrorMessageOf(errorData) ==
    LET stringified == IF errorData.self.t = "undefined"
                       THEN Undefined
                       ELSE Str(JSONstringify(errorData.self))
    IN  Template(OrElse(OrElse(errorData.message, errorData.error), stringified))

QueryExecutionFailedPrefix == <<"Query execution failed:">>

\* Faulty variant: the fallback for a job without error text is lost
QueryExecutionFailedNoFallback(job) ==
    PlainError(QueryExecutionFailedPrefix \o <<" ", Template(job.error)>>)

\* throw new Error(`Query execution failed: ${errorDetails}`)
QueryExecutionFailed(job) ==
    LET errorDetails == OrElse(job.error, Str("Unknown error"))
    IN  PlainError(QueryExecutionFailedPrefix \o <<" ", Template(errorDetails)>>)

\* throw new Error(`Query execution timed out after ${timeout}ms`)
QueryTimedOut(timeout) ==
    PlainError(<<"Query execution timed out after ", ToString(timeout), "ms">>)

\* response.data.job.status on a body without a job
NoJobTypeError ==
    PlainError(<<"Cannot read properties of undefined (reading 'status')">>)

PollPrefix(job) == <<"Failed to poll for query results (job ", job, "): ">>

\* Faulty variant: every caught error is reported the same way
PollCatchUnclassified(error, job) ==
    IF StartsWith(error.message, QueryExecutionFailedPrefix)
    THEN error
    ELSE PlainError(PollPrefix(job) \o error.message)

\* Faulty variant: the loop's own execution failure is wrapped like any other error
PollCatchRewraps(error, job) == PlainError(PollPrefix(job) \o error.message)

\* pollQueryResults: catch (error) { ... }
PollCatch(error, job) ==
    IF StartsWith(error.message, QueryExecutionFailedPrefix)
    THEN error
    ELSE IF error.isAxios
         THEN IF error.hasResponse
              THEN PlainError(PollPrefix(job)
                              \o <<"Redash API error (", ToString(error.status), "): ",
                                   ErrorMessageOf(error.data)>>)
              ELSE IF error.hasRequest
                   THEN PlainError(PollPrefix(job)
                                   \o <<"No response received from Redash API: ">>
                                   \o error.message)
                   ELSE PlainError(PollPrefix(job) \o error.message)
         ELSE PlainError(PollPrefix(job) \o error.message)

ExecutePrefix(queryId) == <<"Failed to execute query ", ToString(queryId), ": ">>

\* Faulty variant: like the loop's catch, the catch of executeQuery passes
\* the loop's own execution failure on as it is
ExecuteQueryCatchPassesOwn(error, queryId) ==
    IF StartsWith(error.message, QueryExecutionFailedPrefix)
    THEN error
    ELSE PlainError(ExecutePrefix(queryId) \o error.message)

\* executeQuery: catch (error) { ... }
ExecuteQueryCatch(error, queryId) ==
    IF error.isAxios
    THEN IF error.hasResponse
         THEN PlainError(ExecutePrefix(queryId)
                         \o <<"Redash API error (", ToString(error.status), "): ",
                              ErrorMessageOf(error.data)>>)
         ELSE IF error.hasRequest
              THEN PlainError(ExecutePrefix(queryId)
                              \o <<"No response received from Redash API: ">>
                              \o error.message)
              ELSE PlainError(ExecutePrefix(queryId) \o error.message)
    ELSE PlainError(ExecutePrefix(queryId) \o error.message)

AdhocPrefix == <<"Failed to execute adhoc query: ">>

\* executeAdhocQuery: catch (error) { ... }
ExecuteAdhocQueryCatch(error) == PlainError(AdhocPrefix \o error.message)

\* The handler of the operation that runs the request: executeQuery (also
\* when getQueryResultsAsCsv called it) or executeAdhocQuery
CallerCatch(c, error) ==
    IF c.op = "executeAdhocQuery"
    THEN ExecuteAdhocQueryCatch(error)
    ELSE ExecuteQueryCatch(error, c.queryId)

CsvPrefix(queryId) == <<"Failed to fetch CSV results for query ", ToString(queryId), ": ">>

\* getQueryResultsAsCsv: catch (error) { ... }
CsvCatch(error, queryId) ==
    IF error.isAxios
    THEN IF error.hasResponse
         THEN PlainError(CsvPrefix(queryId)
                         \o <<"Redash API error (", ToString(error.status), "): ",
                              Template(error.data.self)>>)
         ELSE IF error.hasRequest
              THEN PlainError(CsvPrefix(queryId)
                              \o <<"No response received from Redash API: ">>
                              \o error.message)
              ELSE PlainError(CsvPrefix(queryId) \o error.message)
    ELSE PlainError(CsvPrefix(queryId) \o error.message)

----------------------------------------------------------------------------
(* Objects with string values (Record<string, string>) are functions from  *)
(* their keys; texts that are taken apart are sequences of tokens, a token *)
(* being a word, a blank " " or one of the characters = ; ,                *)

\* o[k]
Get(o, k) == IF k \in DOMAIN o THEN Str(o[k]) ELSE Undefined

\* delete o[k]
Delete(o, k) == [x \in DOMAIN o \ {k} |-> o[x]]

\* {...a, ...b}
Spread(a, b) ==
    [k \in DOMAIN a \cup DOMAIN b |-> IF k \in DOMAIN b THEN b[k] ELSE a[k]]

\* The string the tokens spell
RECURSIVE Join(_)
Join(tokens) == IF tokens = <<>> THEN "" ELSE Head(tokens) \o Join(Tail(tokens))

\* part.indexOf('='), counted from 1; 0 when there is none
IndexOfEquals(part) ==
    IF \E i \in DOMAIN part : part[i] = "="
    THEN CHOOSE i \in DOMAIN part :
            /\ part[i] = "="
            /\ \A j \in 1..(i - 1) : part[j] # "="
    ELSE 0

\* s.trim()
RECURSIVE Trim(_)
Trim(tokens) ==
    IF tokens = <<>> THEN <<>>
    ELSE IF Head(tokens) = " " THEN Trim(Tail(tokens))
    ELSE IF tokens[Len(tokens)] = " " THEN Trim(SubSeq(tokens, 1, Len(tokens) - 1))
    ELSE tokens

\* raw.split(/[;,]/)
RECURSIVE Split(_)
Split(text) ==
    IF \E i \in DOMAIN text : text[i] \in {";", ","}
    THEN LET i == CHOOSE i \in DOMAIN text :
                    /\ text[i] \in {";", ","}
                    /\ \A j \in 1..(i - 1) : text[j] \notin {";", ","}
         IN  <<SubSeq(text, 1, i - 1)>> \o Split(SubSeq(text, i + 1, Len(text)))
    ELSE <<text>>

----------------------------------------------------------------------------
(* The constructor of RedashClient *)

\* process.env.REDASH_EXTRA_HEADERS: unset, or a text together with what
\* JSON.parse makes of it (a SyntaxError, or a value; entries are those of
\* an object that is not an array)
NoJson == [valid |-> FALSE, isObject |-> FALSE, entries |-> <<>>]
JsonObject(entries) == [valid |-> TRUE, isObject |-> TRUE, entries |-> entries]
JsonOther == [valid |-> TRUE, isObject |-> FALSE, entries |-> <<>>]
RawUnset == [set |-> FALSE, text |-> <<>>, json |-> NoJson]
Raw(text, json) == [set |-> TRUE, text |-> text, json |-> json]

\* Object.fromEntries(Object.entries(obj).filter(...).map(([k, v]) => [k, String(v)]))
FromJsonObject(entries) ==
    LET kept == {k \in DOMAIN entries : entries[k] \notin {Undefined, Null}}
    IN  [k \in kept |-> Template(entries[k])]

\* for (const part of parts) { ... headers[key] = value }
RECURSIVE FromParts(_, _)
FromParts(parts, headers) ==
    IF parts = <<>> THEN headers
    ELSE LET part == Head(parts)
             idx == IndexOfEquals(part)
             key == Join(Trim(SubSeq(part, 1, idx - 1)))
             value == Join(Trim(SubSeq(part, idx + 1, Len(part))))
         IN  IF idx = 0 \/ key = ""
             THEN FromParts(Tail(parts), headers)
             ELSE FromParts(Tail(parts), Spread(headers, key :> value))

\* parseExtraHeaders()
ParseExtraHeaders(raw) ==
    IF ~raw.set \/ Join(raw.text) = ""
    THEN <<>>
    ELSE IF raw.json.valid /\ raw.json.isObject
         THEN FromJsonObject(raw.json.entries)
         ELSE FromParts(Split(raw.text), <<>>)

\* this.baseUrl, this.apiKey
BaseUrl(e) == OrElse(e.REDASH_URL, Str(""))
ApiKey(e) == OrElse(e.REDASH_API_KEY, Str(""))

\* Faulty variant: only the base URL is required
ConstructorThrowsWithoutUrlOnly(e) == ~Truthy(BaseUrl(e))

\* if (!this.baseUrl || !this.apiKey) throw ...
ConstructorThrows(e) == ~Truthy(BaseUrl(e)) \/ ~Truthy(ApiKey(e))

ConfigurationError ==
    PlainError(<<"REDASH_URL and REDASH_API_KEY must be provided in .env file">>)

DefaultHeaders(apiKey) ==
    ("Authorization" :> ("Key " \o apiKey)) @@ ("Content-Type" :> "application/json")

\* if (extraHeaders['Authorization'] || extraHeaders['authorization']) { delete ...; delete ... }
DropAuthorization(extraHeaders) ==
    IF Truthy(Get(extraHeaders, "Authorization")) \/ Truthy(Get(extraHeaders, "authorization"))
    THEN Delete(Delete(extraHeaders, "Authorization"), "authorization")
    ELSE extraHeaders

NoClient == [created |-> FALSE, baseURL |-> "", headers |-> <<>>, timeout |-> 0]

\* axios.create({ baseURL, headers: {...defaultHeaders, ...extraHeaders}, timeout })
\* with REDASH_TIMEOUT unset
NewClient(e) ==
    [created |-> TRUE,
     baseURL |-> BaseUrl(e).v,
     headers |-> Spread(DefaultHeaders(ApiKey(e).v),
                        DropAuthorization(ParseExtraHeaders(e.REDASH_EXTRA_HEADERS))),
     timeout |-> RequestTimeout]

Env(url, key, raw) ==
    [REDASH_URL |-> url, REDASH_API_KEY |-> key, REDASH_EXTRA_HEADERS |-> raw]

\* The environment of the test suite
TestEnv == Env(Str("https://redash.example.com"), Str("test-api-key"), RawUnset)

NoResource == [method |-> "", uri |-> <<>>, queryResources |-> <<>>, returned |-> FALSE,
               threw |-> FALSE, message |-> <<>>, contents |-> <<>>]

NoTool == [name |-> "", hasArgs |-> FALSE, args |-> <<>>]
NoEnvelope == [returned |-> FALSE, threw |-> FALSE, isError |-> FALSE, text |-> <<>>]

----------------------------------------------------------------------------
(* What the backend can answer *)

QueryIds == 1..MaxQueryId
DataSourceIds == {1}
JobIds == {"job-" \o ToString(i) : i \in 1..MaxJobId}
ResultIds == {Num(i) : i \in 1..MaxResultId}

NoJob == [status |-> Undefined, result |-> Undefined, query_result_id |-> Undefined,
          error |-> Undefined]

\* Job statuses other than the numbers 3 and 4
OtherStatuses == {Num(1), Num(2), Num(5), Undefined, Str("3")}

\* response.data.job of a job-status response
PollJobs ==
    [status : {Num(3)}, result : {Undefined, Obj("inline result")},
     query_result_id : {Undefined} \cup ResultIds, error : {Undefined}]
    \cup
    [status : {Num(4)}, result : {Undefined}, query_result_id : {Undefined},
     error : {Undefined, Str(""), Str("syntax error")}]
    \cup
    [status : OtherStatuses, result : {Undefined}, query_result_id : {Undefined},
     error : {Undefined}]
    \cup
    [status : {Num(2)}, result : {Obj("inline result")},
     query_result_id : ResultIds, error : {Str("syntax error")}]

\* response.data of an error response
ErrorBodies ==
    { [message |-> Str("bad request"), error |-> Undefined, self |-> Obj("message")],
      [message |-> Undefined, error |-> Str("boom"), self |-> Obj("error")],
      [message |-> Undefined, error |-> Undefined, self |-> Obj("")] }

\* What a rejected request throws
HttpErrors ==
    { AxiosError("Request failed with status code 500", TRUE, 500, d, TRUE) : d \in ErrorBodies }
    \cup
    { AxiosError("timeout of 30000ms exceeded", FALSE, 0, NoData, TRUE),
      AxiosError("Invalid URL", FALSE, 0, NoData, FALSE),
      PlainError(<<"socket hang up">>) }

\* A settled request: resolved with response.data (of which job is
\* response.data.job when hasJob), or rejected with error
Resolved(data, hasJob, job, id) ==
    [ok |-> TRUE, data |-> data, hasJob |-> hasJob, job |-> job, jobId |-> id,
     error |-> NoError]

Rejected(error) ==
    [ok |-> FALSE, data |-> Undefined, hasJob |-> FALSE, job |-> NoJob, jobId |-> "",
     error |-> error]

NoResponse == Rejected(NoError)

\* Answers to the execution POST: a result, or a job handle
PostAnswers ==
    { Resolved(Obj(b), FALSE, NoJob, "") : b \in {"query result", ""} }
    \cup { Resolved(Obj("job"), TRUE, NoJob, j) : j \in JobIds }
    \cup { Rejected(e) : e \in HttpErrors }

\* Answers to GET /api/jobs/{jobId}
PollAnswers ==
    { Resolved(Obj("job"), TRUE, j, "") : j \in PollJobs }
    \cup { Resolved(Obj(""), FALSE, NoJob, "") }
    \cup { Rejected(e) : e \in HttpErrors }

\* Answers to GET /api/query_results/{id}
FetchAnswers ==
    { Resolved(Obj("query result " \o id.v), FALSE, NoJob, "") : id \in ResultIds }
    \cup { Rejected(e) : e \in HttpErrors }

----------------------------------------------------------------------------
(* Requests *)

NoBody == [parameters |-> Undefined, query |-> "", data_source_id |-> 0,
           max_age |-> Undefined, apply_auto_limit |-> FALSE]

Request(method, path, body) == [method |-> method, path |-> path, body |-> body]

NoRequest == Request("", <<>>, NoBody)

NoCall == [op |-> "", queryId |-> 0, parameters |-> Undefined, query |-> "",
           dataSourceId |-> 0, refresh |-> FALSE, id |-> 0, data |-> <<>>]

NoOutcome == [kind |-> "none", value |-> Undefined, message |-> <<>>]

Returned(value) == [kind |-> "return", value |-> value, message |-> <<>>]

Thrown(error) == [kind |-> "throw", value |-> Undefined, message |-> error.message]

\* Two invocations run at a time; none of them has started
Invocations == {1, 2}

NoInvocation ==
    [pc |-> "idle", op |-> "", queryId |-> 0, jobId |-> "", startTime |-> 0,
     req |-> NoRequest, waitFrom |-> 0, lastPost |-> NoResponse, last |-> NoResponse,
     outcome |-> NoOutcome]

NoInvocations == [i \in Invocations |-> NoInvocation]

Init ==
    /\ pc = "idle"
    /\ call = NoCall
    /\ now = 0
    /\ jobId = ""
    /\ startTime = 0
    /\ req = NoRequest
    /\ posted = NoRequest
    /\ lastPost = NoResponse
    /\ nPost = 0
    /\ nPoll = 0
    /\ nFetch = 0
    /\ nPending = 0
    /\ lastPoll = NoResponse
    /\ lastFetch = NoResponse
    /\ pollThrown = NoError
    /\ outcome = NoOutcome
    /\ sent = <<>>
    /\ settled = NoResponse
    /\ env = TestEnv
    /\ client = NewClient(TestEnv)
    /\ tool = NoTool
    /\ envelope = NoEnvelope
    /\ inv = NoInvocations
    /\ resource = NoResource

----------------------------------------------------------------------------
(* pollQueryResults *)

\* Faulty variant: the deadline itself still polls
LoopConditionInclusive(t, start, timeout) == t - start <= timeout

\* while (Date.now() - startTime < timeout)
LoopCondition(t, start, timeout) == t - start < timeout

\* Faulty variant: the wrong status code is taken for completion
IsCompletedWrongCode(job) == StrictEq(job.status, Num(2))

\* Faulty variant: == instead of ===, so that "3" counts as 3
IsCompletedLoose(job) == job.status.v = "3"

\* Faulty variant: a completed job counts only when it carries a result
IsCompletedWithResult(job) ==
    /\ StrictEq(job.status, Num(3))
    /\ Truthy(job.result) \/ Truthy(job.query_result_id)

\* response.data.job.status === 3
IsCompleted(job) == StrictEq(job.status, Num(3))

\* response.data.job.status === 4
IsFailed(job) == StrictEq(job.status, Num(4))

\* Faulty variant: the result is fetched only when the job has no inline result
HasNoInlineResult(job) == ~Truthy(job.result)

\* if (response.data.job.query_result_id)
HasQueryResultId(job) == Truthy(job.query_result_id)

\* Faulty variant: the body is tested instead of its job
ResponseHasBody(answer) == answer.ok

\* executeQuery / executeAdhocQuery: if (response.data.job)
ResponseHasJob(answer) == answer.hasJob

\* The invocation ends; an executeQuery that getQueryResultsAsCsv or the
\* resources/read handler awaits settles with o instead
Finish(o) ==
    /\ pc' = CASE call.op = "getQueryResultsAsCsv" -> "refreshed"
                [] call.op = "readResource" -> "executed"
                [] OTHER -> "done"
    /\ req' = NoRequest
    /\ outcome' = o

\* pollQueryResults returns value, and its caller returns it
PollReturns(value) ==
    /\ Finish(Returned(value))
    /\ UNCHANGED pollThrown

\* pollQueryResults throws error into its caller's handler
PollThrows(error) ==
    /\ pollThrown' = error
    /\ Finish(Thrown(CallerCatch(call, error)))

\* The head of the loop at time t: the next poll is issued, or the loop is
\* left and the timeout error thrown
LoopHead(t, start, job) ==
    IF LoopCondition(t, start, DefaultTimeout)
    THEN /\ pc' = "poll"
         /\ req' = Request("GET", <<"/api/jobs/", job>>, NoBody)
         /\ nPoll' = nPoll + 1
         /\ UNCHANGED <<pollThrown, outcome>>
    ELSE /\ nPoll' = nPoll
         /\ PollThrows(QueryTimedOut(DefaultTimeout))

\* A poll response that carries a job whose status is neither 3 nor 4
IsPendingAnswer(answer) ==
    /\ answer.ok
    /\ answer.hasJob
    /\ answer.job.status \notin {Num(3), Num(4)}

----------------------------------------------------------------------------
(* Actions *)

\* executeQuery(queryId, parameters) up to await this.client.post(...)
ExecuteQuery(queryId, parameters) ==
    /\ pc = "idle"
    /\ call' = [NoCall EXCEPT !.op = "executeQuery", !.queryId = queryId,
                              !.parameters = parameters]
    /\ req' = Request("POST", <<"/api/queries/", ToString(queryId), "/results">>,
                      [NoBody EXCEPT !.parameters = parameters])
    /\ posted' = req'
    /\ nPost' = nPost + 1
    /\ pc' = "post"
    /\ UNCHANGED <<now, jobId, startTime, lastPost, nPoll, nFetch, nPending, lastPoll,
                   lastFetch, pollThrown, outcome>>
    /\ UNCHANGED <<gatewayVars, configVars, toolVars, handlerVars>>

\* executeAdhocQuery(query, dataSourceId) up to await this.client.post(...)
ExecuteAdhocQuery(query, dataSourceId) ==
    /\ pc = "idle"
    /\ call' = [NoCall EXCEPT !.op = "executeAdhocQuery", !.query = query,
                              !.dataSourceId = dataSourceId]
    /\ req' = Request("POST", <<"/api/query_results">>,
                      [parameters |-> Obj(""), query |-> query,
                       data_source_id |-> dataSourceId, max_age |-> Num(0),
                       apply_auto_limit |-> TRUE])
    /\ posted' = req'
    /\ nPost' = nPost + 1
    /\ pc' = "post"
    /\ UNCHANGED <<now, jobId, startTime, lastPost, nPoll, nFetch, nPending, lastPoll,
                   lastFetch, pollThrown, outcome>>
    /\ UNCHANGED <<gatewayVars, configVars, toolVars, handlerVars>>

\* The execution POST settles after delay ms
PostSettles(delay, answer) ==
    /\ pc = "post"
    /\ now' = now + delay
    /\ lastPost' = answer
    /\ IF answer.ok
       THEN IF ResponseHasJob(answer)
            THEN \* return await this.pollQueryResults(response.data.job.id)
                 /\ jobId' = answer.jobId
                 /\ startTime' = now'
                 /\ LoopHead(now', now', answer.jobId)
            ELSE \* return response.data
                 /\ Finish(Returned(answer.data))
                 /\ UNCHANGED <<jobId, startTime, nPoll, pollThrown>>
       ELSE /\ Finish(Thrown(CallerCatch(call, answer.error)))
            /\ UNCHANGED <<jobId, startTime, nPoll, pollThrown>>
    /\ UNCHANGED <<call, posted, nPost, nFetch, nPending, lastPoll, lastFetch>>
    /\ UNCHANGED <<gatewayVars, configVars, toolVars, handlerVars>>

\* Faulty variant: the deadline is checked again when the response arrives,
\* and a response that arrives after it counts as a timeout
PollSettlesChecksDeadline(delay, answer) ==
    /\ pc = "poll"
    /\ now' = now + delay
    /\ lastPoll' = answer
    /\ nPending' = IF IsPendingAnswer(answer) THEN nPending + 1 ELSE nPending
    /\ IF IsPendingAnswer(answer)
       THEN /\ pc' = "sleep"
            /\ req' = NoRequest
            /\ UNCHANGED <<pollThrown, outcome>>
       ELSE IF /\ LoopCondition(now', startTime, DefaultTimeout)
               /\ answer.ok /\ answer.hasJob /\ IsCompleted(answer.job)
            THEN PollReturns(answer.job.result)
            ELSE PollThrows(QueryTimedOut(DefaultTimeout))
    /\ UNCHANGED <<call, jobId, startTime, posted, lastPost, nPost, nPoll, nFetch, lastFetch>>
    /\ UNCHANGED <<gatewayVars, configVars, toolVars, handlerVars>>

\* GET /api/jobs/{jobId} settles after delay ms
PollSettles(delay, answer) ==
    /\ pc = "poll"
    /\ now' = now + delay
    /\ lastPoll' = answer
    /\ nPending' = IF IsPendingAnswer(answer) THEN nPending + 1 ELSE nPending
    /\ IF answer.ok
       THEN IF ~answer.hasJob
            THEN /\ PollThrows(PollCatch(NoJobTypeError, jobId))
                 /\ UNCHANGED nFetch
            ELSE IF IsCompleted(answer.job)
                 THEN IF HasQueryResultId(answer.job)
                      THEN /\ pc' = "fetch"
                           /\ req' = Request("GET",
                                             <<"/api/query_results/",
                                               Template(answer.job.query_result_id)>>,
                                             NoBody)
                           /\ nFetch' = nFetch + 1
                           /\ UNCHANGED <<pollThrown, outcome>>
                      ELSE /\ PollReturns(answer.job.result)
                           /\ UNCHANGED nFetch
                 ELSE IF IsFailed(answer.job)
                      THEN /\ PollThrows(PollCatch(QueryExecutionFailed(answer.job), jobId))
                           /\ UNCHANGED nFetch
                      ELSE \* await new Promise(resolve => setTimeout(resolve, interval))
                           /\ pc' = "sleep"
                           /\ req' = NoRequest
                           /\ UNCHANGED <<nFetch, pollThrown, outcome>>
       ELSE /\ PollThrows(PollCatch(answer.error, jobId))
            /\ UNCHANGED nFetch
    /\ UNCHANGED <<call, jobId, startTime, posted, lastPost, nPost, nPoll, lastFetch>>
    /\ UNCHANGED <<gatewayVars, configVars, toolVars, handlerVars>>

\* GET /api/query_results/{query_result_id} settles after delay ms
FetchSettles(delay, answer) ==
    /\ pc = "fetch"
    /\ now' = now + delay
    /\ lastFetch' = answer
    /\ IF answer.ok
       THEN PollReturns(answer.data)
       ELSE PollThrows(PollCatch(answer.error, jobId))
    /\ UNCHANGED <<call, jobId, startTime, posted, lastPost, nPost, nPoll, nFetch, nPending,
                   lastPoll>>
    /\ UNCHANGED <<gatewayVars, configVars, toolVars, handlerVars>>

\* Faulty variant: the loop polls again without waiting for the interval
WakeAtOnce(late) ==
    /\ pc = "sleep"
    /\ now' = now + late
    /\ LoopHead(now', startTime, jobId)
    /\ UNCHANGED <<call, jobId, startTime, posted, lastPost, nPost, nFetch, nPending,
                   lastPoll, lastFetch>>
    /\ UNCHANGED <<gatewayVars, configVars, toolVars, handlerVars>>

\* Faulty variant: the promise of the wait is never resolved
WakeNeverResolved(late) ==
    /\ pc = "sleep"
    /\ FALSE
    /\ UNCHANGED vars

\* The timer of the wait fires, late ms after the interval, and the loop
\* condition is evaluated again
Wake(late) ==
    /\ pc = "sleep"
    /\ now' = now + DefaultInterval + late
    /\ LoopHead(now', startTime, jobId)
    /\ UNCHANGED <<call, jobId, startTime, posted, lastPost, nPost, nFetch, nPending,
                   lastPoll, lastFetch>>
    /\ UNCHANGED <<gatewayVars, configVars, toolVars, handlerVars>>

Next ==
    \/ \E q \in QueryIds, p \in {Undefined, Obj("parameters")} : ExecuteQuery(q, p)
    \/ \E d \in DataSourceIds : ExecuteAdhocQuery("SELECT 1", d)
    \/ \E d \in Delays, a \in PostAnswers : PostSettles(d, a)
    \/ \E d \in Delays, a \in PollAnswers : PollSettles(d, a)
    \/ \E d \in Delays, a \in FetchAnswers : FetchSettles(d, a)
    \/ \E d \in Delays : Wake(d)

Spec == Init /\ [][Next]_vars

\* Every request settles and every timer fires
FairSpec == Spec /\ WF_vars(Next)

----------------------------------------------------------------------------
(* getQueryResultsAsCsv *)

\* Answers to GET /api/queries/{id}/results.csv
CsvAnswers ==
    { Resolved(Str(b), FALSE, NoJob, "") : b \in {"id,name\n1,test", ""} }
    \cup { Rejected(e) : e \in HttpErrors }

CsvRequest(queryId) ==
    Request("GET", <<"/api/queries/", ToString(queryId), "/results.csv">>, NoBody)

\* Faulty variant: the refresh is started but not awaited
GetQueryResultsAsCsvNotAwaited(queryId, refresh) ==
    /\ pc = "idle"
    /\ call' = [NoCall EXCEPT !.op = "getQueryResultsAsCsv", !.queryId = queryId,
                              !.refresh = refresh]
    /\ req' = Request("POST", <<"/api/queries/", ToString(queryId), "/results">>, NoBody)
    /\ posted' = req'
    /\ nPost' = nPost + 1
    /\ pc' = "post"
    /\ sent' = <<CsvRequest(queryId)>>
    /\ UNCHANGED <<now, jobId, startTime, lastPost, nPoll, nFetch, nPending, lastPoll,
                   lastFetch, pollThrown, outcome, settled, configVars, toolVars, handlerVars>>

\* getQueryResultsAsCsv(queryId, refresh) up to its first await: that of
\* executeQuery(queryId), which runs up to its POST, or that of the CSV GET
GetQueryResultsAsCsv(queryId, refresh) ==
    /\ pc = "idle"
    /\ call' = [NoCall EXCEPT !.op = "getQueryResultsAsCsv", !.queryId = queryId,
                              !.refresh = refresh]
    /\ IF refresh
       THEN /\ req' = Request("POST", <<"/api/queries/", ToString(queryId), "/results">>,
                              [NoBody EXCEPT !.parameters = Undefined])
            /\ posted' = req'
            /\ nPost' = nPost + 1
            /\ pc' = "post"
            /\ UNCHANGED sent
       ELSE /\ req' = CsvRequest(queryId)
            /\ sent' = Append(sent, req')
            /\ pc' = "csv"
            /\ UNCHANGED <<posted, nPost>>
    /\ UNCHANGED <<now, jobId, startTime, lastPost, nPoll, nFetch, nPending, lastPoll,
                   lastFetch, pollThrown, outcome, settled, configVars, toolVars, handlerVars>>

\* Faulty variant: a failed refresh is swallowed and the CSV fetched all the same
CsvAfterRefreshSwallows ==
    /\ pc = "refreshed"
    /\ req' = CsvRequest(call.queryId)
    /\ sent' = Append(sent, req')
    /\ pc' = "csv"
    /\ outcome' = NoOutcome
    /\ UNCHANGED <<call, bridgeVars, settled, configVars, toolVars, handlerVars>>

\* await this.executeQuery(queryId) has settled: its result is dropped and
\* the CSV GET issued, or its error goes to the handler
CsvAfterRefresh ==
    /\ pc = "refreshed"
    /\ IF outcome.kind = "return"
       THEN /\ req' = CsvRequest(call.queryId)
            /\ sent' = Append(sent, req')
            /\ pc' = "csv"
            /\ outcome' = NoOutcome
       ELSE /\ pc' = "done"
            /\ outcome' = Thrown(CsvCatch(PlainError(outcome.message), call.queryId))
            /\ UNCHANGED <<req, sent>>
    /\ UNCHANGED <<call, bridgeVars, settled, configVars, toolVars, handlerVars>>

\* GET /api/queries/{id}/results.csv settles
CsvSettles(answer) ==
    /\ pc = "csv"
    /\ settled' = answer
    /\ pc' = "done"
    /\ req' = NoRequest
    /\ outcome' = IF answer.ok
                  THEN Returned(answer.data)
                  ELSE Thrown(CsvCatch(answer.error, call.queryId))
    /\ UNCHANGED <<call, bridgeVars, sent, configVars, toolVars, handlerVars>>

CsvNext ==
    \/ \E q \in QueryIds, r \in BOOLEAN : GetQueryResultsAsCsv(q, r)
    \/ \E d \in Delays, a \in PostAnswers : PostSettles(d, a)
    \/ \E d \in Delays, a \in PollAnswers : PollSettles(d, a)
    \/ \E d \in Delays, a \in FetchAnswers : FetchSettles(d, a)
    \/ \E d \in Delays : Wake(d)
    \/ CsvAfterRefresh
    \/ \E a \in CsvAnswers : CsvSettles(a)

CsvSpec == Init /\ [][CsvNext]_vars

----------------------------------------------------------------------------
(* The mutating operations of RedashClient.  A payload is an object with   *)
(* JavaScript values: a function from its own keys; a key may be present   *)
(* with the value undefined.                                               *)

\* o.k
Field(o, k) == IF k \in DOMAIN o THEN o[k] ELSE Undefined

CreateOps == {"createQuery", "createVisualization", "createDashboard", "createAlert",
              "createWidget", "createQuerySnippet"}
UpdateOps == {"updateQuery", "updateVisualization", "updateDashboard", "updateAlert",
              "updateWidget", "updateQuerySnippet"}
DeleteOps == {"archiveQuery", "deleteVisualization", "archiveDashboard", "deleteAlert",
              "deleteWidget", "deleteQuerySnippet"}
QueryOps == {"createQuery", "updateQuery", "archiveQuery"}
VisualizationOps == {"createVisualization", "updateVisualization", "deleteVisualization"}
DashboardOps == {"createDashboard", "updateDashboard", "archiveDashboard"}
AlertOps == {"createAlert", "updateAlert", "deleteAlert"}
WidgetOps == {"createWidget", "updateWidget", "deleteWidget"}
QuerySnippetOps == {"createQuerySnippet", "updateQuerySnippet", "deleteQuerySnippet"}

\* The fields of the Update...Request interfaces
UpdateFields(op) ==
    CASE op = "updateQuery" ->
            {"name", "data_source_id", "query", "description", "options", "schedule",
             "tags", "is_archived", "is_draft"}
      [] op = "updateVisualization" -> {"type", "name", "description", "options"}
      [] op = "updateDashboard" ->
            {"name", "tags", "is_archived", "is_draft", "dashboard_filters_enabled"}
      [] op = "updateAlert" -> {"name", "query_id", "options", "rearm"}
      [] op = "updateWidget" -> {"visualization_id", "text", "width", "options"}
      [] op = "updateQuerySnippet" -> {"trigger", "description", "snippet"}

\* createQuery: const requestData = { name: queryData.name, ... }
CreateQueryRequestData(queryData) ==
    [k \in {"name", "data_source_id", "query", "description", "options", "schedule", "tags"} |->
        CASE k = "description" -> OrElse(Field(queryData, k), Str(""))
          [] k = "options" -> OrElse(Field(queryData, k), Obj(""))
          [] k = "schedule" -> OrElse(Field(queryData, k), Null)
          [] k = "tags" -> OrElse(Field(queryData, k), Arr(""))
          [] OTHER -> Field(queryData, k)]

\* Faulty variant: if (queryData.name) requestData.name = queryData.name; ...
UpdateQueryRequestDataIfTruthy(queryData) ==
    [k \in {f \in UpdateFields("updateQuery") : Truthy(Field(queryData, f))} |-> queryData[k]]

\* updateQuery: if (queryData.name !== undefined) requestData.name = queryData.name; ...
UpdateQueryRequestData(queryData) ==
    [k \in {f \in UpdateFields("updateQuery") : ~StrictEq(Field(queryData, f), Undefined)} |->
        queryData[k]]

\* The second argument of this.client.post; this.client.delete has none
PostData(op, data) ==
    CASE op = "createQuery" -> CreateQueryRequestData(data)
      [] op = "updateQuery" -> UpdateQueryRequestData(data)
      [] op \in DeleteOps -> <<>>
      [] OTHER -> data

\* The JSON text axios sends for an object: JSON.stringify leaves out the
\* keys whose value is undefined
JsonBody(data) == [k \in {f \in DOMAIN data : data[f] # Undefined} |-> data[k]]

Collection(op) ==
    CASE op \in QueryOps -> "/api/queries"
      [] op \in VisualizationOps -> "/api/visualizations"
      [] op \in DashboardOps -> "/api/dashboards"
      [] op \in AlertOps -> "/api/alerts"
      [] op \in WidgetOps -> "/api/widgets"
      [] op \in QuerySnippetOps -> "/api/query_snippets"

OperationPath(op, id) ==
    IF op \in CreateOps THEN <<Collection(op)>> ELSE <<Collection(op), "/", ToString(id)>>

OperationRequest(op, id, data) ==
    Request(IF op \in DeleteOps THEN "DELETE" ELSE "POST", OperationPath(op, id),
            PostData(op, data))

Verb(op) ==
    CASE op \in CreateOps -> "create"
      [] op \in UpdateOps -> "update"
      [] op \in {"archiveQuery", "archiveDashboard"} -> "archive"
      [] OTHER -> "delete"

Entity(op) ==
    CASE op \in QueryOps -> "query"
      [] op \in VisualizationOps -> "visualization"
      [] op \in DashboardOps -> "dashboard"
      [] op \in AlertOps -> "alert"
      [] op \in WidgetOps -> "widget"
      [] op \in QuerySnippetOps -> "query snippet"

\* `Failed to <verb> <entity>` and, but for create, ` ${id}`
FailedTo(op, id) ==
    IF op \in CreateOps
    THEN <<"Failed to ", Verb(op), " ", Entity(op)>>
    ELSE <<"Failed to ", Verb(op), " ", Entity(op), " ", ToString(id)>>

\* createQuery, updateQuery: the inner catch (axiosError: any) { ... }
QueryInnerCatch(axiosError) ==
    IF axiosError.hasResponse
    THEN PlainError(<<"Redash API error (", ToString(axiosError.status), "): ",
                      JSONstringify(axiosError.data.self)>>)
    ELSE IF axiosError.hasRequest
         THEN PlainError(<<"No response received from Redash API: ">> \o axiosError.message)
         ELSE axiosError

\* The catch (error) { ... } of the operation: what it throws
OperationCatch(op, id, error) ==
    CASE op \in {"createQuery", "updateQuery"} ->
            PlainError(FailedTo(op, id) \o <<": ">> \o QueryInnerCatch(error).message)
      [] op \in VisualizationOps -> PlainError(FailedTo(op, id))
      [] OTHER -> PlainError(FailedTo(op, id) \o <<": ">> \o error.message)

Success == Obj("\"success\":true")

\* Faulty variant: every archive and delete returns { success: true }
OperationReturnAlwaysSuccess(op, answer) ==
    IF op \in DeleteOps THEN Success ELSE answer.data

\* What the operation returns when its request succeeded
OperationReturn(op, answer) ==
    CASE op = "deleteVisualization" -> Undefined
      [] op \in DeleteOps -> Success
      [] OTHER -> answer.data

\* Answers to the request of a mutating operation
GatewayAnswers ==
    { Resolved(Obj(b), FALSE, NoJob, "") : b \in {"\"id\":1", ""} }
    \cup { Rejected(e) : e \in HttpErrors }

\* Values of the fields of a payload
FieldValues == {Undefined, Null, Str("Updated Query"), Num(1)}

\* Payloads with up to MaxFields of the given fields
Payloads(fields) ==
    UNION { [K -> FieldValues] : K \in {S \in SUBSET fields : Cardinality(S) <= MaxFields} }

\* What the create operations are called with
CreateData(op) ==
    IF op = "createQuery"
    THEN { [name |-> Str("New Query"), data_source_id |-> Num(1), query |-> Str("SELECT 1")],
           [name |-> Str("New Query"), data_source_id |-> Num(1), query |-> Str("SELECT 1"),
            description |-> Str("Updated Query"), tags |-> Arr("\"a\"")] }
    ELSE { [name |-> Str("New Query")] }

\* The operation op(id, data), or op(data), or op(id), up to its await
Invoke(op, id, data) ==
    /\ pc = "idle"
    /\ call' = [NoCall EXCEPT !.op = op, !.id = id, !.data = data]
    /\ req' = OperationRequest(op, id, data)
    /\ sent' = Append(sent, req')
    /\ pc' = "gateway"
    /\ UNCHANGED <<bridgeVars, outcome, settled, configVars, handlerVars>>

Create(op, data) ==
    /\ Invoke(op, 0, data)
    /\ UNCHANGED toolVars

Update(op, id, data) ==
    /\ Invoke(op, id, data)
    /\ UNCHANGED toolVars

ArchiveOrDelete(op, id) ==
    /\ Invoke(op, id, <<>>)
    /\ UNCHANGED toolVars

----------------------------------------------------------------------------
(* The tools of the mutating operations and the tools/call handler.  The   *)
(* arguments of a request are JSON: an object without undefined values, or *)
(* no arguments at all.                                                    *)

ToolNames == {"create_query", "update_query", "archive_query", "update_visualization",
              "delete_visualization", "update_dashboard", "archive_dashboard",
              "update_alert", "delete_alert", "update_widget", "delete_widget",
              "update_query_snippet", "delete_query_snippet"}

\* The RedashClient method the tool calls
ToolOp(name) ==
    CASE name = "create_query" -> "createQuery"
      [] name = "update_query" -> "updateQuery"
      [] name = "archive_query" -> "archiveQuery"
      [] name = "update_visualization" -> "updateVisualization"
      [] name = "delete_visualization" -> "deleteVisualization"
      [] name = "update_dashboard" -> "updateDashboard"
      [] name = "archive_dashboard" -> "archiveDashboard"
      [] name = "update_alert" -> "updateAlert"
      [] name = "delete_alert" -> "deleteAlert"
      [] name = "update_widget" -> "updateWidget"
      [] name = "delete_widget" -> "deleteWidget"
      [] name = "update_query_snippet" -> "updateQuerySnippet"
      [] name = "delete_query_snippet" -> "deleteQuerySnippet"

\* The id field of the tool's schema
IdField(name) ==
    CASE ToolOp(name) \in QueryOps -> "queryId"
      [] ToolOp(name) \in VisualizationOps -> "visualizationId"
      [] ToolOp(name) \in DashboardOps -> "dashboardId"
      [] ToolOp(name) \in AlertOps -> "alertId"
      [] ToolOp(name) \in WidgetOps -> "widgetId"
      [] ToolOp(name) \in QuerySnippetOps -> "snippetId"

\* The schemas: z.object({ ... }) without the .optional() fields
RequiredFields(name) ==
    IF name = "create_query" THEN {"name", "data_source_id", "query"} ELSE {IdField(name)}

\* The schemas: the .optional() fields
OptionalFields(name) ==
    CASE name = "create_query" -> {"description", "options", "schedule", "tags"}
      [] ToolOp(name) \in UpdateOps -> UpdateFields(ToolOp(name))
      [] OTHER -> {}

\* The schemas: the type of a field
FieldType(name, field) ==
    CASE field \in {"queryId", "visualizationId", "dashboardId", "alertId", "widgetId",
                    "snippetId", "data_source_id", "query_id", "visualization_id", "width"} ->
            "z.number()"
      [] field \in {"name", "query", "description", "type", "text", "trigger", "snippet"} ->
            "z.string()"
      [] field \in {"is_archived", "is_draft", "dashboard_filters_enabled"} -> "z.boolean()"
      [] field = "tags" -> "z.array(z.string())"
      [] field = "rearm" -> "z.number().nullable()"
      [] field = "options" /\ name = "update_alert" -> "z.object()"
      [] OTHER -> "z.any()"

\* Whether the type accepts the value
Accepts(type, value) ==
    CASE type = "z.number()" -> value.t = "number"
      [] type = "z.string()" -> value.t = "string"
      [] type = "z.boolean()" -> value.t = "boolean"
      [] type = "z.array(z.string())" -> value.t = "array"
      [] type = "z.number().nullable()" -> value.t \in {"number", "null"}
      [] type = "z.object()" -> value.t = "object"
      [] OTHER -> TRUE

\* Faulty variant: fields that are absent are not asked for
ParsesWithoutRequired(name, hasArgs, args) ==
    \A f \in DOMAIN args \cap (RequiredFields(name) \cup OptionalFields(name)) :
        Accepts(FieldType(name, f), args[f])

\* schema.parse(args) does not throw
Parses(name, hasArgs, args) ==
    /\ hasArgs
    /\ \A f \in RequiredFields(name) :
            f \in DOMAIN args /\ Accepts(FieldType(name, f), args[f])
    /\ \A f \in OptionalFields(name) \cap DOMAIN args : Accepts(FieldType(name, f), args[f])

\* What schema.parse(args) returns: the fields of the schema
Parsed(name, args) ==
    [k \in DOMAIN args \cap (RequiredFields(name) \cup OptionalFields(name)) |-> args[k]]

ZodError == PlainError(<<"ZodError">>)

\* const { queryId, ...updateData } = params; the number it holds, 0 for none
ToolId(name, params) ==
    IF \E i \in QueryIds : Field(params, IdField(name)) = Num(i)
    THEN CHOOSE i \in QueryIds : Field(params, IdField(name)) = Num(i)
    ELSE 0

\* Faulty variant: the tool fills the fields that were not given
ToolDataDefaulted(name, params) ==
    [k \in OptionalFields(name) |-> OrElse(Field(params, k), Null)]

\* The payload the tool function hands to the RedashClient method
ToolData(name, params) ==
    CASE name = "create_query" ->
            [k \in {"name", "data_source_id", "query", "description", "options", "schedule",
                    "tags"} |->
                CASE k = "description" -> OrElse(Field(params, k), Str(""))
                  [] k = "options" -> OrElse(Field(params, k), Obj(""))
                  [] k = "schedule" -> OrElse(Field(params, k), Null)
                  [] k = "tags" -> OrElse(Field(params, k), Arr(""))
                  [] OTHER -> Field(params, k)]
      [] name = "update_visualization" ->
            [k \in DOMAIN params \ {"visualizationId"} |-> params[k]]
      [] ToolOp(name) \in UpdateOps ->
            [k \in {f \in OptionalFields(name) : ~StrictEq(Field(params, f), Undefined)} |->
                params[k]]
      [] OTHER -> <<>>

Gerund(op) ==
    CASE op \in CreateOps -> "creating"
      [] op \in UpdateOps -> "updating"
      [] op \in {"archiveQuery", "archiveDashboard"} -> "archiving"
      [] OTHER -> "deleting"

ResultEnvelope(text) == [returned |-> TRUE, threw |-> FALSE, isError |-> FALSE, text |-> text]
ErrorEnvelope(text) == [returned |-> TRUE, threw |-> FALSE, isError |-> TRUE, text |-> text]

\* The tool function after await redashClient.<op>(...): its return value
ToolReturn(name, id, o) ==
    IF o.kind = "return"
    THEN IF name = "delete_visualization"
         THEN ResultEnvelope(<<"Visualization ", ToString(id), " deleted successfully">>)
         ELSE ResultEnvelope(<<JSONstringify(o.value)>>)
    ELSE IF name = "create_query"
         THEN ErrorEnvelope(<<"Error creating query: ">> \o o.message)
         ELSE ErrorEnvelope(<<"Error ", Gerund(ToolOp(name)), " ", Entity(ToolOp(name)), " ",
                              ToString(id), ": ">> \o o.message)

\* Faulty variant: the handler lets the error escape
HandlerCatchRethrows(name, error) ==
    [returned |-> FALSE, threw |-> TRUE, isError |-> FALSE, text |-> error.message]

\* The handler's catch of a failed schema.parse(args): for create_query and
\* update_query the inner catch (validationError), else the outer catch (error)
HandlerCatch(name, error) ==
    IF name \in {"create_query", "update_query"}
    THEN ErrorEnvelope(<<"Invalid parameters for ", name, ": ">> \o error.message)
    ELSE ErrorEnvelope(<<"Error executing tool ", name, ": ">> \o error.message)

\* Requests to the handler: a tool name, and arguments with the id field
\* right, absent or a string, and up to MaxFields further fields
ToolValues == {Null, Str("Updated Query"), Num(1), Bool(TRUE), Arr("\"a\"")}

ToolArgs(name) ==
    IF name \notin ToolNames THEN {<<>>}
    ELSE IF name = "create_query"
    THEN { [name |-> Str("New Query"), data_source_id |-> Num(1), query |-> Str("SELECT 1")],
           [name |-> Str("New Query"), query |-> Str("SELECT 1")],
           [name |-> Str("New Query"), data_source_id |-> Str("1"), query |-> Str("SELECT 1")],
           [name |-> Str("New Query"), data_source_id |-> Num(1), query |-> Str("SELECT 1"),
            description |-> Str("Updated Query")] }
    ELSE { fields @@ id :
            fields \in UNION { [K -> ToolValues] :
                                K \in {S \in SUBSET OptionalFields(name) :
                                          Cardinality(S) <= MaxFields} },
            id \in {<<>>, IdField(name) :> Str("1")}
                   \cup {IdField(name) :> Num(i) : i \in QueryIds} }

\* The handler of CallToolRequestSchema, up to the await of the request the
\* tool's operation issues, or to its return
CallTool(name, hasArgs, args) ==
    /\ pc = "idle"
    /\ tool = NoTool
    /\ tool' = [name |-> name, hasArgs |-> hasArgs, args |-> args]
    /\ IF name \notin ToolNames
       THEN /\ envelope' = ErrorEnvelope(<<"Unknown tool: ", name>>)
            /\ pc' = "done"
            /\ UNCHANGED <<call, req, sent, bridgeVars, outcome, settled, configVars,
                           handlerVars>>
       ELSE IF ~Parses(name, hasArgs, args)
            THEN /\ envelope' = HandlerCatch(name, ZodError)
                 /\ pc' = "done"
                 /\ UNCHANGED <<call, req, sent, bridgeVars, outcome, settled, configVars,
                           handlerVars>>
            ELSE /\ Invoke(ToolOp(name), ToolId(name, Parsed(name, args)),
                           ToolData(name, Parsed(name, args)))
                 /\ UNCHANGED envelope

\* The request of the operation settles: the operation returns or throws,
\* and the tool that called it returns its result
GatewaySettles(answer) ==
    /\ pc = "gateway"
    /\ settled' = answer
    /\ pc' = "done"
    /\ req' = NoRequest
    /\ outcome' = IF answer.ok
                  THEN Returned(OperationReturn(call.op, answer))
                  ELSE Thrown(OperationCatch(call.op, call.id, answer.error))
    /\ envelope' = IF tool = NoTool THEN envelope ELSE ToolReturn(tool.name, call.id, outcome')
    /\ UNCHANGED <<call, bridgeVars, sent, configVars, tool, handlerVars>>

\* The inputs are drawn once a call can be made
GatewayNext ==
    \/ /\ pc = "idle"
       /\ \E op \in CreateOps : \E data \in CreateData(op) : Create(op, data)
    \/ /\ pc = "idle"
       /\ \E op \in UpdateOps, id \in QueryIds :
            \E data \in Payloads(UpdateFields(op)) : Update(op, id, data)
    \/ /\ pc = "idle"
       /\ \E op \in DeleteOps, id \in QueryIds : ArchiveOrDelete(op, id)
    \/ /\ pc = "idle"
       /\ \E name \in ToolNames \cup {"no_such_tool"}, hasArgs \in BOOLEAN :
            \E args \in ToolArgs(name) : CallTool(name, hasArgs, args)
    \/ \E a \in GatewayAnswers : GatewaySettles(a)

GatewaySpec == Init /\ [][GatewayNext]_vars

----------------------------------------------------------------------------
(* Construction from any environment, followed by an operation *)

HeaderNames == {"Authorization", "authorization", "AUTHORIZATION", "X-Custom-Header"}

\* Values of a JSON object's entries
JsonValues == {Str("malicious-key"), Str(""), Num(0), Null}

\* REDASH_EXTRA_HEADERS holding JSON: objects of up to MaxHeaders entries,
\* and an array, which is parsed as a key=value list
JsonRaws ==
    { Raw(<<"{json}">>, JsonObject(o)) :
        o \in UNION { [K -> JsonValues] :
                        K \in {S \in SUBSET HeaderNames : Cardinality(S) <= MaxHeaders} } }
    \cup { Raw(<<"[\"a", "=", "b\"]">>, JsonOther) }

\* The parts of a key=value list
ListParts ==
    { <<"Authorization", "=", "malicious-key">>,
      <<"Authorization", "=">>,
      <<" ", "authorization", " ", "=", " ", "malicious-key", " ">>,
      <<"authorization", "=", " ">>,
      <<"AUTHORIZATION", "=", "malicious-key">>,
      <<"X-Custom-Header", "=", "value1">>,
      <<"X-Custom-Header">>,
      <<"=", "value1">> }

\* Lists of n parts
RECURSIVE ListTexts(_)
ListTexts(n) ==
    IF n = 1 THEN ListParts
    ELSE { t \o <<sep>> \o part :
            t \in ListTexts(n - 1), sep \in {";", ","}, part \in ListParts }

\* REDASH_EXTRA_HEADERS holding a key=value list, or the empty string
ListRaws ==
    { Raw(t, NoJson) : t \in UNION { ListTexts(n) : n \in 1..MaxHeaders } }
    \cup { Raw(<<>>, NoJson) }

Envs ==
    { Env(url, key, raw) :
        url \in {Undefined, Str(""), Str("https://redash.example.com")},
        key \in {Undefined, Str(""), Str("test-api-key")},
        raw \in {RawUnset} \cup JsonRaws \cup ListRaws }

ConfigInit ==
    /\ pc = "new"
    /\ call = NoCall
    /\ now = 0
    /\ jobId = ""
    /\ startTime = 0
    /\ req = NoRequest
    /\ posted = NoRequest
    /\ lastPost = NoResponse
    /\ nPost = 0
    /\ nPoll = 0
    /\ nFetch = 0
    /\ nPending = 0
    /\ lastPoll = NoResponse
    /\ lastFetch = NoResponse
    /\ pollThrown = NoError
    /\ outcome = NoOutcome
    /\ sent = <<>>
    /\ settled = NoResponse
    /\ env \in Envs
    /\ client = NoClient
    /\ tool = NoTool
    /\ envelope = NoEnvelope
    /\ inv = NoInvocations
    /\ resource = NoResource

\* new RedashClient()
Constructor ==
    /\ pc = "new"
    /\ IF ConstructorThrows(env)
       THEN /\ pc' = "done"
            /\ outcome' = Thrown(ConfigurationError)
            /\ UNCHANGED client
       ELSE /\ pc' = "idle"
            /\ client' = NewClient(env)
            /\ UNCHANGED outcome
    /\ UNCHANGED <<call, req, bridgeVars, gatewayVars, env, toolVars, handlerVars>>

ConfigNext ==
    \/ Constructor
    \/ \E q \in QueryIds : GetQueryResultsAsCsv(q, FALSE)
    \/ \E a \in CsvAnswers : CsvSettles(a)

ConfigSpec == ConfigInit /\ [][ConfigNext]_vars

----------------------------------------------------------------------------
(* Invocations of executeQuery and executeAdhocQuery that run concurrently  *)
(* on the one client.  The parameters and local variables of the async     *)
(* functions (queryId, jobId, startTime, response) belong to the           *)
(* invocation; the client and the clock are shared.  Steps of different    *)
(* invocations interleave in any order; events happen at multiples of the  *)
(* request timeout.                                                        *)

\* The backend gives each execution a job of its own, or one job to several
BackendJobIds == {"job-" \o ToString(i) : i \in 1..(MaxJobId + 1)}

ConcurrentErrors == { AxiosError("timeout of 30000ms exceeded", FALSE, 0, NoData, TRUE) }

ConcurrentPostAnswers ==
    { Resolved(Obj("query result"), FALSE, NoJob, "") }
    \cup { Resolved(Obj("job"), TRUE, NoJob, j) : j \in BackendJobIds }
    \cup { Rejected(e) : e \in ConcurrentErrors }

ConcurrentPollAnswers ==
    { Resolved(Obj("job"), TRUE, j, "") :
        j \in { [NoJob EXCEPT !.status = Num(1)],
                [NoJob EXCEPT !.status = Num(3), !.result = Obj("inline result")],
                [NoJob EXCEPT !.status = Num(3), !.query_result_id = Num(1)],
                [NoJob EXCEPT !.status = Num(4), !.error = Str("syntax error")] } }
    \cup { Rejected(e) : e \in ConcurrentErrors }

ConcurrentFetchAnswers ==
    { Resolved(Obj("query result 1"), FALSE, NoJob, "") }
    \cup { Rejected(e) : e \in ConcurrentErrors }

\* Faulty variant: the start of the loop is kept in a field of the client,
\* which the latest invocation has overwritten
StartTimeOnClient(i) ==
    LET started == {j \in Invocations : inv[j].pc \notin {"idle", "post"}}
    IN  IF started = {} THEN inv[i].startTime
        ELSE CHOOSE t \in {inv[j].startTime : j \in started} :
                \A j \in started : inv[j].startTime <= t

\* pollQueryResults: const startTime, a local of the invocation
StartTimeOf(i) == inv[i].startTime

\* pollQueryResults: the parameter jobId of the invocation
JobIdOf(i) == inv[i].jobId

\* The invocation ends with outcome o, and its locals are gone
Ended(r, o) ==
    [NoInvocation EXCEPT !.pc = "done", !.op = r.op, !.queryId = r.queryId,
                         !.last = r.last, !.outcome = o]

\* The head of the loop of invocation r at time t
AtLoopHead(r, t, start, job) ==
    IF LoopCondition(t, start, DefaultTimeout)
    THEN [r EXCEPT !.pc = "poll", !.req = Request("GET", <<"/api/jobs/", job>>, NoBody)]
    ELSE Ended(r, Thrown(CallerCatch(r, QueryTimedOut(DefaultTimeout))))

\* The first time at a multiple of the request timeout at which a wait that
\* began at t is over
Due(t) == ((t + DefaultInterval + RequestTimeout - 1) \div RequestTimeout) * RequestTimeout

Later(a, b) == IF a >= b THEN a ELSE b

\* Invocation i: executeQuery(queryId) up to its await
StartExecuteQuery(i, queryId) ==
    /\ inv[i].pc = "idle"
    /\ inv' = [inv EXCEPT ![i] =
                [@ EXCEPT !.pc = "post", !.op = "executeQuery", !.queryId = queryId,
                          !.req = Request("POST",
                                          <<"/api/queries/", ToString(queryId), "/results">>,
                                          NoBody)]]
    /\ UNCHANGED <<pc, call, req, bridgeVars, outcome, gatewayVars, configVars, toolVars,
                   resource>>

\* Invocation i: executeAdhocQuery(query, dataSourceId) up to its await
StartExecuteAdhocQuery(i, query, dataSourceId) ==
    /\ inv[i].pc = "idle"
    /\ inv' = [inv EXCEPT ![i] =
                [@ EXCEPT !.pc = "post", !.op = "executeAdhocQuery",
                          !.req = Request("POST", <<"/api/query_results">>,
                                          [parameters |-> Obj(""), query |-> query,
                                           data_source_id |-> dataSourceId,
                                           max_age |-> Num(0), apply_auto_limit |-> TRUE])]]
    /\ UNCHANGED <<pc, call, req, bridgeVars, outcome, gatewayVars, configVars, toolVars,
                   resource>>

\* Invocation i: its execution POST settles after delay ms
ConcurrentPostSettles(i, delay, answer) ==
    /\ inv[i].pc = "post"
    /\ now' = now + delay
    /\ LET r == [inv[i] EXCEPT !.lastPost = answer, !.last = answer]
       IN  inv' = [inv EXCEPT ![i] =
                    IF answer.ok
                    THEN IF ResponseHasJob(answer)
                         THEN AtLoopHead([r EXCEPT !.jobId = answer.jobId, !.startTime = now'],
                                         now', now', answer.jobId)
                         ELSE Ended(r, Returned(answer.data))
                    ELSE Ended(r, Thrown(CallerCatch(r, answer.error)))]
    /\ UNCHANGED <<pc, call, jobId, startTime, req, posted, lastPost, nPost, nPoll, nFetch,
                   nPending, lastPoll, lastFetch, pollThrown, outcome, gatewayVars,
                   configVars, toolVars, resource>>

\* Invocation i: its GET /api/jobs/{jobId} settles after delay ms
ConcurrentPollSettles(i, delay, answer) ==
    /\ inv[i].pc = "poll"
    /\ now' = now + delay
    /\ LET r == [inv[i] EXCEPT !.last = answer]
           job == JobIdOf(i)
       IN  inv' = [inv EXCEPT ![i] =
                    IF answer.ok
                    THEN IF IsCompleted(answer.job)
                         THEN IF HasQueryResultId(answer.job)
                              THEN [r EXCEPT !.pc = "fetch",
                                             !.req = Request("GET",
                                                        <<"/api/query_results/",
                                                          Template(answer.job.query_result_id)>>,
                                                        NoBody)]
                              ELSE Ended(r, Returned(answer.job.result))
                         ELSE IF IsFailed(answer.job)
                              THEN Ended(r, Thrown(CallerCatch(r,
                                            PollCatch(QueryExecutionFailed(answer.job), job))))
                              ELSE [r EXCEPT !.pc = "sleep", !.req = NoRequest,
                                             !.waitFrom = now']
                    ELSE Ended(r, Thrown(CallerCatch(r, PollCatch(answer.error, job))))]
    /\ UNCHANGED <<pc, call, jobId, startTime, req, posted, lastPost, nPost, nPoll, nFetch,
                   nPending, lastPoll, lastFetch, pollThrown, outcome, gatewayVars,
                   configVars, toolVars, resource>>

\* Invocation i: its GET /api/query_results/{id} settles after delay ms
ConcurrentFetchSettles(i, delay, answer) ==
    /\ inv[i].pc = "fetch"
    /\ now' = now + delay
    /\ LET r == [inv[i] EXCEPT !.last = answer]
       IN  inv' = [inv EXCEPT ![i] =
                    IF answer.ok
                    THEN Ended(r, Returned(answer.data))
                    ELSE Ended(r, Thrown(CallerCatch(r, PollCatch(answer.error, JobIdOf(i)))))]
    /\ UNCHANGED <<pc, call, jobId, startTime, req, posted, lastPost, nPost, nPoll, nFetch,
                   nPending, lastPoll, lastFetch, pollThrown, outcome, gatewayVars,
                   configVars, toolVars, resource>>

\* Invocation i: the timer of its wait fires, when it is due or late ms
\* after the event before it, and the loop condition is evaluated again
ConcurrentWake(i, late) ==
    /\ inv[i].pc = "sleep"
    /\ now' = Later(now + late, Due(inv[i].waitFrom))
    /\ inv' = [inv EXCEPT ![i] = AtLoopHead(inv[i], now', StartTimeOf(i), JobIdOf(i))]
    /\ UNCHANGED <<pc, call, jobId, startTime, req, posted, lastPost, nPost, nPoll, nFetch,
                   nPending, lastPoll, lastFetch, pollThrown, outcome, gatewayVars,
                   configVars, toolVars, resource>>

\* Invocation i executes query i, or an adhoc query
ConcurrentNext ==
    \E i \in Invocations :
        \/ StartExecuteQuery(i, i)
        \/ \E d \in DataSourceIds : StartExecuteAdhocQuery(i, "SELECT 1", d)
        \/ \E d \in Delays, a \in ConcurrentPostAnswers :
                ConcurrentPostSettles(i, d, a)
        \/ \E d \in Delays, a \in ConcurrentPollAnswers :
                ConcurrentPollSettles(i, d, a)
        \/ \E d \in Delays, a \in ConcurrentFetchAnswers :
                ConcurrentFetchSettles(i, d, a)
        \/ \E d \in Delays : ConcurrentWake(i, d)

ConcurrentSpec == Init /\ [][ConcurrentNext]_vars

----------------------------------------------------------------------------
(* The resources/list and resources/read handlers.  A URI is a sequence of  *)
(* tokens: a scheme with its "://", a word, "/", a digit or another         *)
(* character; the URI is the text the tokens spell.                        *)

Digits == {"0", "1", "2", "3", "4", "5", "6", "7", "8", "9"}

\* The value of a digit
DigitValue(d) == CHOOSE n \in 0..9 : ToString(n) = d

\* The digits a text begins with
RECURSIVE LeadingDigits(_)
LeadingDigits(text) ==
    IF text = <<>> \/ Head(text) \notin Digits THEN <<>>
    ELSE <<Head(text)>> \o LeadingDigits(Tail(text))

\* The number a sequence of digits spells
RECURSIVE ValueOf(_)
ValueOf(digits) ==
    IF digits = <<>> THEN 0
    ELSE 10 * ValueOf(SubSeq(digits, 1, Len(digits) - 1)) + DigitValue(digits[Len(digits)])

\* parseInt(id, 10) of a text that begins with a digit
ParseInt(id) == ValueOf(LeadingDigits(id))

\* Faulty variant: the pattern without its anchor $
MatchWithoutEnd(uri) ==
    /\ Len(uri) >= 4
    /\ uri[1] = "redash://"
    /\ uri[2] \in {"query", "dashboard"}
    /\ uri[3] = "/"
    /\ uri[4] \in Digits

\* uri.match(/^redash:\/\/(query|dashboard)\/(\d+)$/) is not null
Match(uri) ==
    /\ Len(uri) >= 4
    /\ uri[1] = "redash://"
    /\ uri[2] \in {"query", "dashboard"}
    /\ uri[3] = "/"
    /\ \A j \in 4..Len(uri) : uri[j] \in Digits

\* const [, type, id] = match; const resourceId = parseInt(id, 10)
Type(uri) == uri[2]
ResourceId(uri) == ParseInt(SubSeq(uri, 4, Len(uri)))

\* The handler threw error
ResourceThrew(r, error) == [r EXCEPT !.threw = TRUE, !.message = error.message]

\* The handler returned contents
ResourceReturned(r, contents) == [r EXCEPT !.returned = TRUE, !.contents = contents]

GetQueryRequest(id) == Request("GET", <<"/api/queries/", ToString(id)>>, NoBody)
GetDashboardRequest(id) == Request("GET", <<"/api/dashboards/", ToString(id)>>, NoBody)

\* this.client.get(path, { params: { page, page_size: pageSize } })
ListRequest(path, page, pageSize) ==
    Request("GET", <<path, "?page=", ToString(page), "&page_size=", ToString(pageSize)>>,
            NoBody)

\* contents: [{ uri, mimeType: "application/json", text: JSON.stringify(...) }]
Contents(uri, text) == <<[uri |-> uri, mimeType |-> "application/json", text |-> text]>>

\* The handler of ReadResourceRequestSchema up to its first await, or to its throw
ReadResource(uri) ==
    /\ pc = "idle"
    /\ resource = NoResource
    /\ LET r == [NoResource EXCEPT !.method = "resources/read", !.uri = uri]
       IN  IF ~Match(uri)
           THEN /\ resource' = ResourceThrew(r, PlainError(<<"Invalid resource URI: ",
                                                            Join(uri)>>))
                /\ pc' = "done"
                /\ UNCHANGED <<call, req, sent>>
           ELSE /\ resource' = r
                /\ call' = [NoCall EXCEPT !.op = "readResource", !.queryId = ResourceId(uri),
                                          !.id = ResourceId(uri)]
                /\ IF Type(uri) = "query"
                   THEN /\ req' = GetQueryRequest(ResourceId(uri))
                        /\ pc' = "getQuery"
                   ELSE /\ req' = GetDashboardRequest(ResourceId(uri))
                        /\ pc' = "getDashboard"
                /\ sent' = Append(sent, req')
    /\ UNCHANGED <<bridgeVars, outcome, settled, configVars, toolVars, inv>>

\* Faulty variant: the query is executed whether or not it could be fetched
GetQuerySettlesExecutesAnyway(answer) ==
    /\ pc = "getQuery"
    /\ settled' = answer
    /\ req' = Request("POST", <<"/api/queries/", ToString(call.queryId), "/results">>,
                      [NoBody EXCEPT !.parameters = Undefined])
    /\ posted' = req'
    /\ nPost' = nPost + 1
    /\ pc' = "post"
    /\ UNCHANGED <<call, now, jobId, startTime, lastPost, nPoll, nFetch, nPending, lastPoll,
                   lastFetch, pollThrown, outcome, sent, configVars, toolVars, handlerVars>>

\* getQuery(resourceId) settles: it threw, which the handler rethrows, or
\* executeQuery(resourceId) runs up to its POST
GetQuerySettles(answer) ==
    /\ pc = "getQuery"
    /\ settled' = answer
    /\ IF answer.ok
       THEN /\ req' = Request("POST", <<"/api/queries/", ToString(call.queryId), "/results">>,
                              [NoBody EXCEPT !.parameters = Undefined])
            /\ posted' = req'
            /\ nPost' = nPost + 1
            /\ pc' = "post"
            /\ UNCHANGED resource
       ELSE /\ resource' = ResourceThrew(resource,
                                PlainError(<<"Failed to fetch query ", ToString(call.queryId),
                                             " from Redash">>))
            /\ req' = NoRequest
            /\ pc' = "done"
            /\ UNCHANGED <<posted, nPost>>
    /\ UNCHANGED <<call, now, jobId, startTime, lastPost, nPoll, nFetch, nPending, lastPoll,
                   lastFetch, pollThrown, outcome, sent, configVars, toolVars, inv>>

\* executeQuery(resourceId) has settled: the handler returns the query and
\* the result as contents, or rethrows
ReadResourceAfterExecute ==
    /\ pc = "executed"
    /\ pc' = "done"
    /\ resource' = IF outcome.kind = "return"
                   THEN ResourceReturned(resource,
                            Contents(resource.uri,
                                     <<"{\"query\":", JSONstringify(settled.data),
                                       ",\"result\":", JSONstringify(outcome.value), "}">>))
                   ELSE ResourceThrew(resource, PlainError(outcome.message))
    /\ UNCHANGED <<call, req, bridgeVars, outcome, gatewayVars, configVars, toolVars, inv>>

\* getDashboard(resourceId) settles
GetDashboardSettles(answer) ==
    /\ pc = "getDashboard"
    /\ settled' = answer
    /\ req' = NoRequest
    /\ pc' = "done"
    /\ resource' = IF answer.ok
                   THEN ResourceReturned(resource,
                            Contents(resource.uri, <<JSONstringify(answer.data)>>))
                   ELSE ResourceThrew(resource,
                            PlainError(<<"Failed to fetch dashboard ", ToString(call.id),
                                         " from Redash">>))
    /\ UNCHANGED <<call, bridgeVars, outcome, sent, configVars, toolVars, inv>>

\* response.data of a list request: with results, or without
Listed(results) ==
    [results |-> results, hasResults |-> TRUE] @@ Resolved(Obj("page"), FALSE, NoJob, "")

NotListed ==
    [results |-> <<>>, hasResults |-> FALSE] @@ Resolved(Obj(""), FALSE, NoJob, "")

ListRejected(error) == [results |-> <<>>, hasResults |-> FALSE] @@ Rejected(error)

\* queries.results.map(query => ({ uri, name, description }))
QueryResource(query) ==
    [uri |-> <<"redash://", "query", "/", ToString(query.id)>>,
     name |-> query.name,
     description |-> Template(OrElse(query.description,
                                     Str("Query ID: " \o ToString(query.id))))]

\* dashboards.results.map(dashboard => ({ uri, name, description }))
DashboardResource(dashboard) ==
    [uri |-> <<"redash://", "dashboard", "/", ToString(dashboard.id)>>,
     name |-> dashboard.name,
     description |-> "Dashboard ID: " \o ToString(dashboard.id)]

\* queries.results.map(query => ...), the entries in the order of the queries
QueryResources(results) == [k \in DOMAIN results |-> QueryResource(results[k])]

\* dashboards.results.map(dashboard => ...), in the order of the dashboards
DashboardResources(results) == [k \in DOMAIN results |-> DashboardResource(results[k])]

\* Faulty variant: the queries already listed are returned when the
\* dashboards cannot be fetched
CaughtKeepsQueries(r) == ResourceReturned(r, r.queryResources)

\* catch (error) { return { resources: [] } }
Caught(r) == ResourceReturned(r, <<>>)

\* The handler of ListResourcesRequestSchema up to its first await
ListResources ==
    /\ pc = "idle"
    /\ resource = NoResource
    /\ resource' = [NoResource EXCEPT !.method = "resources/list"]
    /\ req' = ListRequest("/api/queries", 1, 100)
    /\ sent' = Append(sent, req')
    /\ pc' = "getQueries"
    /\ UNCHANGED <<call, bridgeVars, outcome, settled, configVars, toolVars, inv>>

\* getQueries(1, 100) settles: the dashboards are asked for, or the handler
\* returns from its catch
GetQueriesSettles(answer) ==
    /\ pc = "getQueries"
    /\ settled' = answer
    /\ IF answer.ok /\ answer.hasResults
       THEN /\ resource' = [resource EXCEPT
                                !.queryResources = QueryResources(answer.results)]
            /\ req' = ListRequest("/api/dashboards", 1, 100)
            /\ sent' = Append(sent, req')
            /\ pc' = "getDashboards"
       ELSE /\ resource' = Caught(resource)
            /\ req' = NoRequest
            /\ pc' = "done"
            /\ UNCHANGED sent
    /\ UNCHANGED <<call, bridgeVars, outcome, configVars, toolVars, inv>>

\* getDashboards(1, 100) settles
GetDashboardsSettles(answer) ==
    /\ pc = "getDashboards"
    /\ settled' = answer
    /\ req' = NoRequest
    /\ pc' = "done"
    /\ resource' = IF answer.ok /\ answer.hasResults
                   THEN ResourceReturned(resource,
                            resource.queryResources
                            \o DashboardResources(answer.results))
                   ELSE Caught(resource)
    /\ UNCHANGED <<call, bridgeVars, outcome, sent, configVars, toolVars, inv>>

\* Sequences over S of length up to n
RECURSIVE Lists(_, _)
Lists(S, n) ==
    IF n = 0 THEN {<<>>}
    ELSE Lists(S, n - 1) \cup {Append(l, x) : l \in {m \in Lists(S, n - 1) : Len(m) = n - 1},
                                              x \in S}

\* What the backend lists
Queries ==
    { [id |-> i, name |-> "Query", description |-> d] :
        i \in QueryIds, d \in {Undefined, Str("About")} }

Dashboards == { [id |-> i, name |-> "Dashboard"] : i \in QueryIds }

GetQueriesAnswers ==
    { Listed(l) : l \in Lists(Queries, MaxListed) }
    \cup { NotListed }
    \cup { ListRejected(e) : e \in HttpErrors }

GetDashboardsAnswers ==
    { Listed(l) : l \in Lists(Dashboards, MaxListed) }
    \cup { NotListed }
    \cup { ListRejected(e) : e \in HttpErrors }

\* Answers to GET /api/queries/{id} and GET /api/dashboards/{id}
GetAnswers ==
    { Resolved(Obj(b), FALSE, NoJob, "") : b \in {"\"id\":1", ""} }
    \cup { Rejected(e) : e \in HttpErrors }

\* URIs of the two forms the handler serves
ValidUris ==
    { <<"redash://", t, "/", ToString(i)>> : t \in {"query", "dashboard"}, i \in QueryIds }
    \cup { <<"redash://", "dashboard", "/", "4", "5", "6">>,
           <<"redash://", "dashboard", "/", "0", "0", "7">> }

\* Other URIs
InvalidUris ==
    { <<"redash://", "invalid", "/", "1", "2", "3">>,
      <<"redash://", "query", "/", "a", "b", "c">>,
      <<"invalid://", "query", "/", "1", "2", "3">>,
      <<"redash://", "query">>,
      <<"redash://", "query", "/">>,
      <<"redash://", "query", "/", "1", "/">>,
      <<"redash://", "query", "/", "1", "a">>,
      <<"redash://", "query", "/", "-", "1">>,
      <<"redash://", "query", "/", "1", "\n">>,
      <<" ", "redash://", "query", "/", "1">>,
      <<"x", "redash://", "dashboard", "/", "1">>,
      <<"redash://", "QUERY", "/", "1">>,
      <<"redash://", "alert", "/", "1">>,
      <<>> }

ResourceNext ==
    \/ /\ pc = "idle"
       /\ \E uri \in ValidUris \cup InvalidUris : ReadResource(uri)
    \/ \E a \in GetAnswers : GetQuerySettles(a)
    \/ \E d \in Delays, a \in PostAnswers : PostSettles(d, a)
    \/ \E d \in Delays, a \in PollAnswers : PollSettles(d, a)
    \/ \E d \in Delays, a \in FetchAnswers : FetchSettles(d, a)
    \/ \E d \in Delays : Wake(d)
    \/ ReadResourceAfterExecute
    \/ \E a \in GetAnswers : GetDashboardSettles(a)
    \/ ListResources
    \/ \E a \in GetQueriesAnswers : GetQueriesSettles(a)
    \/ \E a \in GetDashboardsAnswers : GetDashboardsSettles(a)

ResourceSpec == Init /\ [][ResourceNext]_vars

----------------------------------------------------------------------------
(* Properties *)

\* A poll response whose job has status 3 / status 4
IsCompletedAnswer(answer) == answer.ok /\ answer.hasJob /\ answer.job.status = Num(3)

IsFailedAnswer(answer) == answer.ok /\ answer.hasJob /\ answer.job.status = Num(4)

CarriesQueryResultId(job) == job.query_result_id # Undefined

CeilDiv(a, b) == (a + b - 1) \div b

\* C1: after a POST that returned a job, the job-status endpoint of that job
\* is polled, and the first poll answered with status 3 and an inline result
\* ends the invocation: it returns exactly that result, the polls issued are
\* the pending ones plus this one, and nothing is requested afterwards.
C1_ReturnsAtFirstCompletedPoll ==
    /\ nPoll > 0 => lastPost.ok /\ lastPost.hasJob
    /\ pc = "poll" => req = Request("GET", <<"/api/jobs/", lastPost.jobId>>, NoBody)
    /\ (IsCompletedAnswer(lastPoll) /\ ~CarriesQueryResultId(lastPoll.job)) =>
          /\ pc = "done"
          /\ outcome = Returned(lastPoll.job.result)
          /\ nPoll = nPending + 1
          /\ nFetch = 0
          /\ req = NoRequest

C1_Witness ==
    /\ pc = "done"
    /\ IsCompletedAnswer(lastPoll)
    /\ lastPoll.job.result = Obj("inline result")
    /\ ~CarriesQueryResultId(lastPoll.job)
    /\ nPoll = 3
    /\ outcome.kind = "return"

\* C2: when the POST of executeQuery is answered with a body without a job,
\* executeQuery returns that body unchanged, and the POST to
\* /api/queries/{id}/results is the only request of the invocation.
C2_SynchronousBodyReturnedUnchanged ==
    (call.op = "executeQuery" /\ lastPost.ok /\ ~lastPost.hasJob) =>
        /\ pc = "done"
        /\ outcome = Returned(lastPost.data)
        /\ nPost = 1
        /\ nPoll = 0
        /\ nFetch = 0
        /\ posted = Request("POST", <<"/api/queries/", ToString(call.queryId), "/results">>,
                            [NoBody EXCEPT !.parameters = call.parameters])

C2_Witness ==
    /\ call.op = "executeQuery"
    /\ pc = "done"
    /\ lastPost.ok
    /\ ~lastPost.hasJob
    /\ outcome = Returned(Obj("query result"))

\* The text a status-4 job is reported with: its error, or "Unknown error"
ExpectedDetails(job) ==
    IF job.error.t = "string" /\ job.error.v # "" THEN job.error.v ELSE "Unknown error"

\* C3: a poll response with job status 4 ends the invocation with an error
\* whose message contains the job's error text, or "Unknown error" when the
\* job has none, and no request follows it.
C3_FailedJobFailsInvocation ==
    IsFailedAnswer(lastPoll) =>
        /\ pc = "done"
        /\ outcome.kind = "throw"
        /\ Contains(outcome.message, ExpectedDetails(lastPoll.job))
        /\ nPoll = nPending + 1
        /\ nFetch = 0
        /\ req = NoRequest

C3_Witness ==
    /\ IsFailedAnswer(lastPoll)
    /\ lastPoll.job.error = Undefined
    /\ pc = "done"
    /\ nPoll = 2
    /\ Contains(outcome.message, "Unknown error")

\* C4: with every wait lasting at least the interval, at most
\* ceil(timeout / interval) polls are issued, and an invocation all of whose
\* polls were answered with a status other than 3 and 4 fails with the
\* timeout error.
C4_PendingForeverTimesOut ==
    /\ nPoll <= CeilDiv(DefaultTimeout, DefaultInterval)
    /\ (pc = "done" /\ nPoll > 0 /\ nPending = nPoll) =>
          /\ outcome.kind = "throw"
          /\ Contains(outcome.message, "Query execution timed out after ")
          /\ now - startTime >= DefaultTimeout

C4_Witness ==
    /\ pc = "done"
    /\ nPending = nPoll
    /\ nPoll = CeilDiv(DefaultTimeout, DefaultInterval)
    /\ outcome.kind = "throw"

\* What is left of the polling budget
Remaining ==
    IF now - startTime < DefaultTimeout THEN DefaultTimeout - (now - startTime) ELSE 0

\* A measure of the work an invocation may still do
Rank ==
    CASE pc = "idle" -> 2 * DefaultTimeout + 5
      [] pc = "post" -> 2 * DefaultTimeout + 4
      [] pc = "poll" -> 2 * Remaining + 3
      [] pc = "sleep" -> 2 * Remaining + 2
      [] pc = "fetch" -> 1
      [] OTHER -> 0

\* C5: every invocation ends, by a return or by a throw, whatever the
\* backend answers: an invocation that has not ended can always take a step
\* (a request settles, the timer fires), every step strictly lowers a
\* measure that is a natural number, and the measure is 0 only when the
\* invocation has returned or thrown.  The polling loop cannot run forever.
C5_EveryInvocationTerminates ==
    /\ [](pc # "done" => ENABLED Next)
    /\ [](Rank \in Nat /\ (Rank = 0 <=> pc = "done"))
    /\ [](pc = "done" <=> outcome.kind \in {"return", "throw"})
    /\ [][Rank' < Rank]_vars

C5_Witness ==
    /\ pc = "done"
    /\ outcome.kind = "return"
    /\ nPending > 0
    /\ nFetch = 1
    /\ now - startTime > DefaultTimeout

\* A request that was rejected
IsRejected(answer) == ~answer.ok /\ answer # NoResponse

EndsWith(msg, suffix) ==
    /\ Len(msg) >= Len(suffix)
    /\ SubSeq(msg, Len(msg) - Len(suffix) + 1, Len(msg)) = suffix

IsTimeoutMessage(msg) == Contains(msg, "Query execution timed out after ")

\* msg reports error, thrown while polling job, in the class it belongs to:
\* the remote answered with an error status, no response was received, or
\* anything else
ReportsPollFailure(msg, error, job) ==
    /\ StartsWith(msg, <<"Failed to poll for query results (job ", job, "): ">>)
    /\ (error.isAxios /\ error.hasResponse) =>
          /\ Contains(msg, "Redash API error (")
          /\ Contains(msg, ToString(error.status))
          /\ ~Contains(msg, "No response received from Redash API: ")
    /\ (error.isAxios /\ ~error.hasResponse /\ error.hasRequest) =>
          /\ Contains(msg, "No response received from Redash API: ")
          /\ ~Contains(msg, "Redash API error (")
          /\ EndsWith(msg, error.message)
    /\ (~error.isAxios \/ (~error.hasResponse /\ ~error.hasRequest)) =>
          /\ ~Contains(msg, "No response received from Redash API: ")
          /\ ~Contains(msg, "Redash API error (")
          /\ EndsWith(msg, error.message)

\* C6: a rejected poll or result fetch is not retried: the invocation ends
\* at once with an error that reports the failure in its class, and no poll
\* follows.  A further poll is issued only from the wait that follows a poll
\* answered with a status other than 3 and 4.
C6_PollFailureAborts ==
    /\ [](IsRejected(lastPoll) =>
            /\ pc = "done"
            /\ outcome.kind = "throw"
            /\ ReportsPollFailure(pollThrown.message, lastPoll.error, lastPost.jobId)
            /\ EndsWith(outcome.message, pollThrown.message)
            /\ nPoll = nPending + 1
            /\ nFetch = 0)
    /\ [](IsRejected(lastFetch) =>
            /\ pc = "done"
            /\ outcome.kind = "throw"
            /\ ReportsPollFailure(pollThrown.message, lastFetch.error, lastPost.jobId)
            /\ EndsWith(outcome.message, pollThrown.message)
            /\ nPoll = nPending + 1
            /\ nFetch = 1)
    /\ [][(nPoll' > nPoll /\ nPoll > 0) =>
            (pc = "sleep" /\ IsPendingAnswer(lastPoll) /\ nPoll' = nPoll + 1)]_vars

C6_Witness ==
    /\ pc = "done"
    /\ IsRejected(lastFetch)
    /\ lastFetch.error.isAxios
    /\ ~lastFetch.error.hasResponse
    /\ lastFetch.error.hasRequest
    /\ nPending = 2
    /\ Contains(outcome.message, "No response received from Redash API: ")

\* C7: 3 and 4 are the only job statuses that end the loop.  A poll answered
\* with any other status leaves the invocation waiting; the wait lasts at
\* least the interval and is followed by the next poll, or by the timeout
\* when the deadline has passed.  Status 3 ends with a result (or with the
\* result fetch), status 4 with an error.
C7_OnlyThreeAndFourAreTerminal ==
    /\ [](IsPendingAnswer(lastPoll) =>
            \/ pc = "sleep" /\ outcome = NoOutcome /\ req = NoRequest /\ nPoll = nPending
            \/ pc = "poll" /\ outcome = NoOutcome /\ nPoll = nPending + 1
            \/ /\ pc = "done"
               /\ IsTimeoutMessage(pollThrown.message)
               /\ now - startTime >= DefaultTimeout
               /\ nPoll = nPending)
    /\ [](IsCompletedAnswer(lastPoll) =>
            \/ pc = "fetch"
            \/ pc = "done" /\ (outcome.kind = "return" \/ IsRejected(lastFetch)))
    /\ [](IsFailedAnswer(lastPoll) => pc = "done" /\ outcome.kind = "throw")
    /\ [][pc = "sleep" =>
            /\ now' >= now + DefaultInterval
            /\ \/ pc' = "poll" /\ nPoll' = nPoll + 1
               \/ pc' = "done" /\ now' - startTime >= DefaultTimeout]_vars

C7_Witness ==
    /\ pc = "poll"
    /\ IsPendingAnswer(lastPoll)
    /\ lastPoll.job.status = Str("3")
    /\ nPoll = 4

\* C8: on status 3, a job that carries a query_result_id is followed by one
\* GET /api/query_results/{query_result_id}, whose body is the result; a job
\* that carries none is followed by no request, and its inline result is the
\* result.
C8_CompletedJobResult ==
    /\ nFetch > 0 => IsCompletedAnswer(lastPoll) /\ CarriesQueryResultId(lastPoll.job)
    /\ (IsCompletedAnswer(lastPoll) /\ CarriesQueryResultId(lastPoll.job)) =>
          /\ nFetch = 1
          /\ nPoll = nPending + 1
          /\ \/ /\ pc = "fetch"
                /\ outcome = NoOutcome
                /\ req = Request("GET",
                                 <<"/api/query_results/", lastPoll.job.query_result_id.v>>,
                                 NoBody)
             \/ pc = "done" /\ lastFetch.ok /\ outcome = Returned(lastFetch.data)
             \/ pc = "done" /\ IsRejected(lastFetch) /\ outcome.kind = "throw"
    /\ (IsCompletedAnswer(lastPoll) /\ ~CarriesQueryResultId(lastPoll.job)) =>
          /\ pc = "done"
          /\ req = NoRequest
          /\ nFetch = 0
          /\ lastFetch = NoResponse
          /\ outcome = Returned(lastPoll.job.result)

C8_Witness ==
    /\ pc = "done"
    /\ IsCompletedAnswer(lastPoll)
    /\ CarriesQueryResultId(lastPoll.job)
    /\ lastPoll.job.result # Undefined
    /\ lastFetch.ok
    /\ outcome = Returned(lastFetch.data)
    /\ call.op = "executeAdhocQuery"

\* C9: the error raised for job status 4 leaves pollQueryResults as it was
\* raised, "Query execution failed: <details>": the loop's handler neither
\* classifies it again nor puts "Failed to poll for query results" before it.
C9_ExecutionFailureNotRewrapped ==
    IsFailedAnswer(lastPoll) =>
        /\ pollThrown.message =
              <<"Query execution failed:", " ", ExpectedDetails(lastPoll.job)>>
        /\ ~pollThrown.isAxios
        /\ \A i \in DOMAIN outcome.message :
              outcome.message[i] # "Failed to poll for query results (job "

C9_Witness ==
    /\ IsFailedAnswer(lastPoll)
    /\ lastPoll.job.error = Str("syntax error")
    /\ pollThrown.message = <<"Query execution failed:", " ", "syntax error">>
    /\ call.op = "executeAdhocQuery"
    /\ nPending = 1

\* C10: an invocation that timed out fails with an error that names both the
\* job that was polled and the timeout in milliseconds.
C10_TimeoutNamesJobAndTimeout ==
    (pc = "done" /\ nPoll > 0 /\ nPending = nPoll) =>
        /\ outcome.kind = "throw"
        /\ Contains(outcome.message, ToString(DefaultTimeout))
        /\ Contains(outcome.message, lastPost.jobId)

----------------------------------------------------------------------------
(* Properties of getQueryResultsAsCsv, under CsvSpec *)

ExecutionRequest(queryId) ==
    Request("POST", <<"/api/queries/", ToString(queryId), "/results">>,
            [NoBody EXCEPT !.parameters = Undefined])

\* C11: getQueryResultsAsCsv(id, refresh) with refresh = true issues the
\* execution POST /api/queries/{id}/results without parameters, and that
\* POST and every poll and fetch it triggers happen before the one GET
\* /api/queries/{id}/results.csv, which is issued only once executeQuery has
\* returned; with refresh = false the CSV GET is the only request.  The value
\* returned is the body of the CSV GET, not the execution result.
C11_CsvGetFollowsRefresh ==
    /\ [](call.op = "getQueryResultsAsCsv" =>
            /\ pc \in {"post", "poll", "fetch", "sleep", "refreshed"} =>
                    call.refresh /\ sent = <<>>
            /\ sent # <<>> =>
                    sent = <<CsvRequest(call.queryId)>> /\ pc \in {"csv", "done"}
            /\ call.refresh => nPost = 1 /\ posted = ExecutionRequest(call.queryId)
            /\ ~call.refresh => nPost = 0 /\ nPoll = 0 /\ nFetch = 0
            /\ pc = "done" /\ outcome.kind = "return" =>
                    /\ sent # <<>>
                    /\ settled.ok
                    /\ outcome.value = settled.data)
    /\ [][/\ sent # <<>> => UNCHANGED <<nPost, nPoll, nFetch, sent>>
          /\ sent = <<>> /\ sent' # <<>> /\ call'.refresh =>
                pc = "refreshed" /\ outcome.kind = "return"]_vars

\* A refresh that polled twice and fetched the result, then the CSV returned
C11_Witness ==
    /\ pc = "done"
    /\ call.op = "getQueryResultsAsCsv"
    /\ call.refresh
    /\ nPoll >= 2
    /\ nFetch = 1
    /\ outcome = Returned(Str("id,name\n1,test"))

----------------------------------------------------------------------------
(* Properties of the constructor, under ConfigSpec *)

ConfiguredKey == "Key " \o ApiKey(env).v

\* C12: whatever REDASH_EXTRA_HEADERS holds (a JSON object or a key=value
\* list, an Authorization entry with an empty value included), the headers
\* the HTTP client is created with have Authorization = "Key <API key>".
C12_AuthorizationNeverOverridden ==
    client.created => Get(client.headers, "Authorization") = Str(ConfiguredKey)

IsMissing(value) == value = Undefined \/ value = Str("")

\* C15: construction fails with the configuration error whenever the base
\* URL or the API key is missing or empty, and then no HTTP client exists
\* and no request is ever issued; otherwise it succeeds with the configured
\* base URL, and from then on no step changes the environment read or the
\* client's base URL, headers and timeout.
C15_ConfigurationRequired ==
    /\ [](pc # "new" =>
            IF IsMissing(env.REDASH_URL) \/ IsMissing(env.REDASH_API_KEY)
            THEN /\ ~client.created
                 /\ pc = "done"
                 /\ outcome = Thrown(ConfigurationError)
                 /\ sent = <<>>
            ELSE /\ client.created
                 /\ client.baseURL = env.REDASH_URL.v
                 /\ "Authorization" \in DOMAIN client.headers)
    /\ [](pc = "new" => ~client.created)
    /\ [][pc # "new" => client' = client /\ env' = env]_vars

\* Construction with an empty API key has thrown
C15_Witness ==
    /\ pc = "done"
    /\ env.REDASH_URL = Str("https://redash.example.com")
    /\ env.REDASH_API_KEY = Str("")
    /\ outcome.kind = "throw"
    /\ ~client.created

----------------------------------------------------------------------------
(* Properties of the mutating operations and their tools, under GatewaySpec *)

\* The keys of an object whose value is not undefined
DefinedKeys(data) == {k \in DOMAIN data : data[k] # Undefined}

\* C13: for every partial update payload passed to updateQuery(id, partial)
\* the body POSTed to /api/queries/{id} has exactly the keys whose value in
\* partial is not undefined (null is kept; undefined and absent keys never
\* appear), each with the input's value.
C13_UpdateQuerySendsDefinedKeys ==
    call.op = "updateQuery" =>
        /\ Len(sent) = 1
        /\ sent[1].method = "POST"
        /\ sent[1].path = <<"/api/queries", "/", ToString(call.id)>>
        /\ DOMAIN sent[1].body = DefinedKeys(call.data)
        /\ \A k \in DOMAIN sent[1].body : sent[1].body[k] = call.data[k]

\* updateQuery(1, {name: 'Updated Query', description: undefined}) has returned
C13_Witness ==
    /\ pc = "done"
    /\ call.op = "updateQuery"
    /\ call.id = 1
    /\ call.data = [name |-> Str("Updated Query"), description |-> Undefined]
    /\ outcome.kind = "return"

\* What the caller of an update provided: the payload of a direct call, the
\* arguments but for the id of a call through the tool
Provided ==
    IF tool = NoTool
    THEN call.data
    ELSE [k \in DOMAIN tool.args \ {IdField(tool.name)} |-> tool.args[k]]

C16_EveryToolCallReturnsAnEnvelope ==
    tool # NoTool =>
        /\ ~envelope.threw
        /\ pc # "done" => pc = "gateway" /\ ~envelope.returned /\ ENABLED GatewayNext
        /\ pc = "done" =>
                /\ envelope.returned
                /\ envelope.isError <=> outcome.kind # "return"
                /\ envelope.isError => envelope.text # <<>>
                /\ tool.name \notin ToolNames \/ ~tool.hasArgs => envelope.isError

\* update_query whose operation threw
C16_Witness ==
    /\ pc = "done"
    /\ tool.name = "update_query"
    /\ outcome.kind = "throw"
    /\ envelope.isError

\* The arguments fail the tool's schema: there are none, a required field
\* is missing, or a field has a value its type does not accept
FailsSchema(t) ==
    \/ ~t.hasArgs
    \/ \E f \in RequiredFields(t.name) : f \notin DOMAIN t.args
    \/ \E f \in DOMAIN t.args \cap (RequiredFields(t.name) \cup OptionalFields(t.name)) :
            ~Accepts(FieldType(t.name, f), t.args[f])

\* C17: schema validation precedes the operation: when the arguments of a
\* known tool fail its schema the handler returns an isError result, no
\* operation of RedashClient is invoked and no HTTP request is issued.
C17_ValidationPrecedesOperation ==
    tool.name \in ToolNames /\ FailsSchema(tool) =>
        /\ pc = "done"
        /\ envelope.returned
        /\ envelope.isError
        /\ call = NoCall
        /\ outcome = NoOutcome
        /\ sent = <<>>
        /\ nPost = 0 /\ nPoll = 0 /\ nFetch = 0

\* update_query without queryId
C17_Witness ==
    /\ pc = "done"
    /\ tool.name = "update_query"
    /\ tool.hasArgs
    /\ DOMAIN tool.args = {"name"}
    /\ tool.args["name"] = Str("Updated Query")
    /\ envelope.isError

\* The message names the status: as a token of its own, or within the
\* message axios gives a rejected response
EmbedsStatus(msg, status) ==
    \/ Contains(msg, ToString(status))
    \/ Contains(msg, "Request failed with status code " \o ToString(status))

\* C18: for every mutating operation (create, update, archive and delete of
\* queries, visualizations, dashboards, alerts, widgets and query snippets)
\* a non-2xx answer makes the thrown error's message embed the status code
\* and the response body, and a request without response makes it say so.
C18_MutationFailureEmbedsStatusAndBody ==
    pc = "done" /\ call.op \in CreateOps \cup UpdateOps \cup DeleteOps /\ ~settled.ok =>
        /\ outcome.kind = "throw"
        /\ settled.error.hasResponse =>
                /\ EmbedsStatus(outcome.message, settled.error.status)
                /\ Contains(outcome.message, JSONstringify(settled.error.data.self))
        /\ ~settled.error.hasResponse /\ settled.error.hasRequest =>
                Contains(outcome.message, "No response received from Redash API: ")

\* C19: for createQuery and updateQuery a failure that is neither an error
\* response nor a request without response reaches the caller unchanged:
\* the message of the error thrown is the message of the original error.
C19_OtherFailuresRethrownUnchanged ==
    /\ pc = "done"
    /\ call.op \in {"createQuery", "updateQuery"}
    /\ ~settled.ok
    /\ ~settled.error.hasResponse
    /\ ~settled.error.hasRequest
    => outcome.kind = "throw" /\ outcome.message = settled.error.message

\* The one DELETE of an archive or delete operation
DeleteRequest(op, id) == Request("DELETE", <<Collection(op), "/", ToString(id)>>, <<>>)

\* An archive or delete operation is over: it issued the one DELETE, and a
\* failed request made it throw an error that names the entity and the id
DeletedOnce ==
    /\ sent = <<DeleteRequest(call.op, call.id)>>
    /\ ~settled.ok =>
            /\ outcome.kind = "throw"
            /\ outcome.value = Undefined
            /\ Contains(outcome.message, Entity(call.op))
            /\ Contains(outcome.message, ToString(call.id))

\* C20 as claimed: archiveQuery, archiveDashboard, deleteVisualization,
\* deleteAlert, deleteWidget and deleteQuerySnippet each issue exactly one
\* DELETE to the id-scoped path and return {success: true} when it succeeds;
\* when it fails they throw an error naming the entity and the id.
C20_EveryArchiveOrDeleteReturnsSuccess ==
    pc = "done" /\ call.op \in DeleteOps =>
        /\ DeletedOnce
        /\ settled.ok => outcome = Returned(Success)

\* C20, amended: as claimed, but deleteVisualization returns nothing
\* (undefined) when its DELETE succeeds; the other five return
\* {success: true}.
C20_ArchiveOrDeleteOnce ==
    pc = "done" /\ call.op \in DeleteOps =>
        /\ DeletedOnce
        /\ settled.ok =>
                outcome = Returned(IF call.op = "deleteVisualization"
                                   THEN Undefined ELSE Success)

\* deleteVisualization(1) has returned
C20_Witness ==
    /\ pc = "done"
    /\ tool = NoTool
    /\ call.op = "deleteVisualization"
    /\ call.id = 1
    /\ settled.ok
    /\ outcome.kind = "return"

\* Requests of the invocation that were issued and have not been answered
Answered ==
    (IF lastPost # NoResponse THEN 1 ELSE 0)
    + nPending
    + (IF lastPoll # NoResponse /\ ~IsPendingAnswer(lastPoll) THEN 1 ELSE 0)
    + (IF lastFetch # NoResponse THEN 1 ELSE 0)

Unanswered == nPost + nPoll + nFetch - Answered

\* C21: within one executeQuery / executeAdhocQuery invocation the requests
\* are strictly sequential: at most one request is unanswered at any time;
\* the first poll is issued only once the execution POST has returned a job;
\* and a further poll is issued only after the poll before it was answered
\* with a status other than 3 and 4 and the interval has then elapsed.
C21_RequestsStrictlySequential ==
    /\ [](/\ Unanswered \in {0, 1}
          /\ Unanswered = 1 <=> pc \in {"post", "poll", "fetch"}
          /\ Unanswered = 1 <=> req # NoRequest
          /\ nPoll > 0 => lastPost.ok /\ lastPost.hasJob)
    /\ [][nPoll' # nPoll =>
            /\ nPoll' = nPoll + 1
            /\ Unanswered' = 1
            /\ nPoll = 0 => pc = "post" /\ lastPost'.ok /\ lastPost'.hasJob
            /\ nPoll > 0 =>
                    /\ pc = "sleep"
                    /\ Unanswered = 0
                    /\ IsPendingAnswer(lastPoll)
                    /\ nPending = nPoll
                    /\ now' - now >= DefaultInterval]_vars

\* The third poll is in flight, two polls having been answered pending
C21_Witness ==
    /\ pc = "poll"
    /\ nPoll = 3
    /\ nPending = 2
    /\ Unanswered = 1

\* How an invocation in state r ends on the response answer to the request
\* it awaits, by its own POST's job id
OwnOutcome(r, answer) ==
    LET job == r.lastPost.jobId
        prefix == IF r.op = "executeAdhocQuery" THEN AdhocPrefix ELSE ExecutePrefix(r.queryId)
    IN  CASE r.pc = "post" /\ answer.ok -> Returned(answer.data)
          [] r.pc = "poll" /\ IsCompletedAnswer(answer) -> Returned(answer.job.result)
          [] r.pc = "poll" /\ IsFailedAnswer(answer) ->
                Thrown(PlainError(prefix \o QueryExecutionFailedPrefix
                                  \o <<" ", ExpectedDetails(answer.job)>>))
          [] r.pc = "fetch" /\ answer.ok -> Returned(answer.data)
          [] r.pc = "post" /\ ~answer.ok ->
                Thrown(PlainError(prefix
                                  \o (IF r.op = "executeAdhocQuery" THEN <<>>
                                      ELSE <<"No response received from Redash API: ">>)
                                  \o answer.error.message))
          [] OTHER ->
                Thrown(PlainError(prefix \o PollPrefix(job)
                                  \o <<"No response received from Redash API: ">>
                                  \o answer.error.message))

\* C22: when executeQuery / executeAdhocQuery invocations run concurrently
\* on the shared client, their steps interleaved in any order, each polls
\* only the job id its own execution POST returned, its deadline is measured
\* from its own start, and its outcome depends only on the responses to its
\* own requests; no step of an invocation changes the client's configuration
\* or the state of another invocation.
C22_ConcurrentInvocationsIndependent ==
    /\ [](\A i \in Invocations :
            /\ inv[i].pc \in {"poll", "sleep", "fetch"} =>
                    inv[i].lastPost.ok /\ inv[i].lastPost.hasJob
            /\ inv[i].pc = "poll" =>
                    inv[i].req = Request("GET", <<"/api/jobs/", inv[i].lastPost.jobId>>, NoBody)
            /\ client = NewClient(env))
    /\ [][\A i \in Invocations :
            inv'[i] # inv[i] =>
                /\ \A j \in Invocations \ {i} : inv'[j] = inv[j]
                /\ client' = client
                /\ inv[i].pc = "sleep" =>
                        IF now' - inv[i].startTime < DefaultTimeout
                        THEN inv'[i].pc = "poll"
                        ELSE /\ inv'[i].pc = "done"
                             /\ IsTimeoutMessage(inv'[i].outcome.message)
                /\ inv[i].pc \in {"post", "poll", "fetch"} /\ inv'[i].pc = "done" =>
                        inv'[i].outcome = OwnOutcome(inv[i], inv'[i].last)]_vars

\* Invocation 1 times out by its own start while invocation 2, started
\* later with another job, is still polling
C22_Witness ==
    /\ inv[1].pc = "done"
    /\ IsTimeoutMessage(inv[1].outcome.message)
    /\ inv[2].pc = "poll"
    /\ inv[2].jobId = "job-2"
    /\ inv[2].startTime > 0
    /\ now - inv[2].startTime < DefaultTimeout

\* name.toLowerCase(), for the header names that occur
ToLowerCase(name) ==
    CASE name \in {"Authorization", "authorization", "AUTHORIZATION"} -> "authorization"
      [] name = "Content-Type" -> "content-type"
      [] name = "X-Custom-Header" -> "x-custom-header"
      [] OTHER -> name

\* C23: the extra headers can never set an Authorization header under any
\* spelling: the only header of the client whose name is "authorization"
\* when case is disregarded is the entry Authorization made from the API key.
C23_NoAuthorizationUnderAnySpelling ==
    client.created =>
        \A k \in DOMAIN client.headers :
            ToLowerCase(k) = "authorization" =>
                k = "Authorization" /\ client.headers[k] = ConfiguredKey

\* The URI is redash://query/<digits> or redash://dashboard/<digits>, with
\* at least one digit and nothing before or after
WellFormed(uri) ==
    \E t \in {"query", "dashboard"}, n \in 1..Len(uri) :
        /\ Len(uri) = 3 + n
        /\ SubSeq(uri, 1, 3) = <<"redash://", t, "/">>
        /\ \A k \in 4..(3 + n) : uri[k] \in Digits

\* C24: the resources/read handler accepts a URI exactly when it has the
\* form redash://query/<digits> or redash://dashboard/<digits>: for such a
\* URI its first request is the GET of that query or dashboard, and for
\* every other URI it throws and no request is issued.
C24_ReadResourceAcceptsExactlyWellFormedUris ==
    resource.method = "resources/read" =>
        IF WellFormed(resource.uri)
        THEN /\ sent # <<>>
             /\ sent[1].method = "GET"
             /\ sent[1].path[1] = "/api/" \o
                    (IF resource.uri[2] = "query" THEN "queries/" ELSE "dashboards/")
             /\ ~StartsWith(resource.message, <<"Invalid resource URI: ">>)
        ELSE /\ pc = "done"
             /\ resource.threw
             /\ ~resource.returned
             /\ resource.message # <<>>
             /\ sent = <<>>
             /\ req = NoRequest
             /\ nPost = 0 /\ nPoll = 0 /\ nFetch = 0

\* redash://query/1 followed by a line feed has been refused
C24_Witness ==
    /\ resource.uri = <<"redash://", "query", "/", "1", "\n">>
    /\ resource.threw
    /\ sent = <<>>

\* How often the token occurs in the message
Occurrences(msg, token) == Cardinality({i \in DOMAIN msg : msg[i] = token})

\* The text of the failure that executeQuery caught: what pollQueryResults
\* threw; for a rejected POST the status and the backend's message when
\* there was a response, and the error's message when there was none
FailureText ==
    IF lastPost.ok
    THEN pollThrown.message
    ELSE IF lastPost.error.hasResponse
         THEN <<"Redash API error (", ToString(lastPost.error.status), "): ",
                ErrorMessageOf(lastPost.error.data)>>
         ELSE lastPost.error.message

\* C25: every failure of executeQuery(queryId) reaches the caller with the
\* prefix "Failed to execute query <queryId>: " exactly once, whether the
\* POST failed, a poll failed, the job had status 4 or the polling timed
\* out, and the text of the failure follows the prefix.
C25_ExecuteQueryFailuresWrappedOnce ==
    pc = "done" /\ call.op = "executeQuery" /\ outcome.kind = "throw" =>
        /\ StartsWith(outcome.message, ExecutePrefix(call.queryId))
        /\ Occurrences(outcome.message, "Failed to execute query ") = 1
        /\ EndsWith(outcome.message, FailureText)
        /\ FailureText # <<>>
        /\ IsFailedAnswer(lastPoll) =>
                outcome.message = ExecutePrefix(call.queryId)
                                  \o <<"Query execution failed:", " ",
                                       ExpectedDetails(lastPoll.job)>>
        /\ lastPost.ok /\ nPoll > 0 /\ ~IsFailedAnswer(lastPoll) /\ ~IsRejected(lastFetch)
           /\ ~IsRejected(lastPoll) /\ lastPoll.hasJob =>
                outcome.message = ExecutePrefix(call.queryId)
                                  \o <<"Query execution timed out after ",
                                       ToString(DefaultTimeout), "ms">>

\* executeQuery(1) failed on a job with status 4 and the error "syntax error"
C25_Witness ==
    /\ pc = "done"
    /\ call.op = "executeQuery"
    /\ IsFailedAnswer(lastPoll)
    /\ outcome.message = <<"Failed to execute query ", "1", ": ", "Query execution failed:",
                           " ", "syntax error">>

\* The execution that refreshes the query has failed: its POST was rejected,
\* or pollQueryResults threw (a failed poll or fetch, status 4, the timeout)
RefreshFailed == IsRejected(lastPost) \/ pollThrown # NoError

\* C26: in getQueryResultsAsCsv(id, refresh = true) a refresh that fails in
\* any way (POST error, poll error, job status 4, polling timeout) is never
\* followed by the CSV GET: the call fails with an error and returns no CSV.
C26_FailedRefreshFetchesNoCsv ==
    call.op = "getQueryResultsAsCsv" /\ RefreshFailed =>
        /\ call.refresh
        /\ sent = <<>>
        /\ pc \in {"refreshed", "done"}
        /\ outcome.kind = "throw"
        /\ pc = "done" =>
                /\ StartsWith(outcome.message, CsvPrefix(call.queryId))
                /\ Contains(outcome.message, "Failed to execute query ")

\* The refresh timed out and the call has failed
C26_Witness ==
    /\ call.op = "getQueryResultsAsCsv"
    /\ pc = "done"
    /\ IsTimeoutMessage(outcome.message)
    /\ pollThrown = QueryTimedOut(DefaultTimeout)
    /\ sent = <<>>

\* Time since the start of the polling loop
Elapsed(t) == t - startTime

\* C27: the polling deadline is checked only before a poll is issued: no
\* poll is issued once the elapsed time has reached the timeout, and the
\* response to a poll that was issued before the deadline and arrives after
\* it is processed as any other: status 3 ends the invocation with the
\* result (or fetches it), status 4 with the execution failure, and neither
\* with the timeout.
C27_DeadlineCheckedBeforePollOnly ==
    /\ [](pc = "poll" => Elapsed(now) < DefaultTimeout)
    /\ [][/\ nPoll' # nPoll => now' - startTime' < DefaultTimeout
          /\ pc = "poll" /\ pc' # "poll" /\ Elapsed(now') >= DefaultTimeout =>
                /\ IsCompletedAnswer(lastPoll') /\ ~HasQueryResultId(lastPoll'.job) =>
                        pc' = "done" /\ outcome' = Returned(lastPoll'.job.result)
                /\ IsCompletedAnswer(lastPoll') /\ HasQueryResultId(lastPoll'.job) =>
                        pc' = "fetch" /\ outcome' = NoOutcome
                /\ IsFailedAnswer(lastPoll') =>
                        /\ pc' = "done"
                        /\ outcome'.kind = "throw"
                        /\ Contains(outcome'.message, "Query execution failed:")
                        /\ ~IsTimeoutMessage(outcome'.message)
                /\ IsPendingAnswer(lastPoll') => pc' = "sleep" /\ outcome' = NoOutcome
                /\ ~IsTimeoutMessage(outcome'.message)]_vars

\* A status-3 response that arrived after the deadline was returned
C27_Witness ==
    /\ pc = "done"
    /\ IsCompletedAnswer(lastPoll)
    /\ Elapsed(now) >= DefaultTimeout
    /\ outcome = Returned(Obj("inline result"))

\* C28 as claimed: a poll response with status 3 always ends the invocation
\* successfully: with neither query_result_id nor inline result it returns
\* undefined, and with both the result fetched by query_result_id is
\* returned and the inline result ignored.
C28_CompletedAlwaysSucceeds ==
    IsCompletedAnswer(lastPoll) =>
        /\ pc \in {"fetch", "done"}
        /\ nPoll = nPending + 1
        /\ pc = "done" =>
                /\ outcome.kind = "return"
                /\ outcome.value = IF HasQueryResultId(lastPoll.job)
                                   THEN lastFetch.data
                                   ELSE lastPoll.job.result

\* C28, amended: a poll response with status 3 always ends the polling, and
\* the invocation ends successfully unless the fetch of the result named by
\* query_result_id fails: with neither query_result_id nor inline result it
\* returns undefined; with a query_result_id, alone or beside an inline
\* result, the result is fetched and returned and the inline result ignored,
\* and a failed fetch fails the invocation.
C28_CompletedEndsPolling ==
    IsCompletedAnswer(lastPoll) =>
        /\ pc \in {"fetch", "done"}
        /\ nPoll = nPending + 1
        /\ pc = "done" /\ ~HasQueryResultId(lastPoll.job) =>
                /\ nFetch = 0
                /\ outcome = Returned(lastPoll.job.result)
                /\ lastPoll.job.result = Undefined => outcome.value = Undefined
        /\ pc = "done" /\ HasQueryResultId(lastPoll.job) =>
                /\ nFetch = 1
                /\ lastFetch.ok => outcome = Returned(lastFetch.data)
                /\ ~lastFetch.ok =>
                        /\ outcome.kind = "throw"
                        /\ Contains(outcome.message, "Failed to poll for query results (job ")

\* Status 3 with neither query_result_id nor result: undefined was returned
C28_Witness ==
    /\ pc = "done"
    /\ IsCompletedAnswer(lastPoll)
    /\ lastPoll.job.query_result_id = Undefined
    /\ lastPoll.job.result = Undefined
    /\ nPending = 1
    /\ outcome = Returned(Undefined)

\* C29: reading redash://query/<id> first fetches the query with
\* GET /api/queries/{id} and then executes it with
\* POST /api/queries/{id}/results, polling when the backend defers; when the
\* fetch fails no execution request is issued; and a failure of either step
\* is thrown by the handler and not returned as contents.
C29_ReadQueryFetchesThenExecutes ==
    /\ [](resource.method = "resources/read" /\ Match(resource.uri)
          /\ Type(resource.uri) = "query" =>
            /\ sent = <<GetQueryRequest(ResourceId(resource.uri))>>
            /\ nPost > 0 =>
                    /\ settled.ok
                    /\ nPost = 1
                    /\ posted = ExecutionRequest(ResourceId(resource.uri))
            /\ pc = "getQuery" => nPost = 0
            /\ IsRejected(settled) =>
                    /\ pc = "done"
                    /\ nPost = 0 /\ nPoll = 0 /\ nFetch = 0
                    /\ resource.threw
                    /\ resource.message = <<"Failed to fetch query ",
                                            ToString(ResourceId(resource.uri)), " from Redash">>
            /\ pc = "done" /\ outcome.kind = "throw" =>
                    resource.threw /\ resource.message = outcome.message
            /\ pc = "done" =>
                    /\ resource.threw # resource.returned
                    /\ resource.threw <=> IsRejected(settled) \/ outcome.kind = "throw"
                    /\ resource.threw => resource.contents = <<>>
                    /\ resource.returned => settled.ok /\ outcome.kind = "return")
    /\ [][nPost' # nPost => pc = "getQuery" /\ settled'.ok]_vars

\* The query was fetched, its execution polled twice and failed on status 4,
\* and the handler threw
C29_Witness ==
    /\ resource.uri = <<"redash://", "query", "/", "1">>
    /\ pc = "done"
    /\ settled.ok
    /\ nPoll = 2
    /\ IsFailedAnswer(lastPoll)
    /\ resource.threw

\* The URIs of the entries, in order
Uris(entries) == [k \in DOMAIN entries |-> entries[k].uri]

\* The ids of the entities, in order
Ids(results) == [k \in DOMAIN results |-> results[k].id]

\* The URIs redash://<type>/<id> of the ids, in order
UrisOf(type, ids) == [k \in DOMAIN ids |-> <<"redash://", type, "/", ToString(ids[k])>>]

\* The ids the URIs name
IdsOf(uris) == [k \in DOMAIN uris |-> ResourceId(uris[k])]

\* C30: the resources/list handler never fails: it fetches the queries and
\* then the dashboards; when either request fails it returns an empty list,
\* the queries already fetched being discarded; and on success the list has
\* one redash://query/<id> entry for each query returned, in order, followed
\* by one redash://dashboard/<id> entry for each dashboard returned.
C30_ListResourcesNeverFails ==
    /\ [](resource.method = "resources/list" =>
            /\ ~resource.threw
            /\ pc # "done" => ENABLED ResourceNext
            /\ Len(sent) \in {1, 2}
            /\ sent[1] = ListRequest("/api/queries", 1, 100)
            /\ Len(sent) = 2 => sent[2] = ListRequest("/api/dashboards", 1, 100)
            /\ Uris(resource.queryResources)
                    = UrisOf("query", IdsOf(Uris(resource.queryResources)))
            /\ pc = "done" =>
                    /\ resource.returned
                    /\ ~(settled.ok /\ settled.hasResults) => resource.contents = <<>>
                    /\ settled.ok /\ settled.hasResults =>
                            /\ Len(sent) = 2
                            /\ Uris(resource.contents) =
                                    Uris(resource.queryResources)
                                    \o UrisOf("dashboard", Ids(settled.results)))
    /\ [][resource'.method = "resources/list" =>
            /\ Len(sent') > Len(sent) /\ Len(sent) = 1 =>
                    /\ settled'.ok
                    /\ Uris(resource'.queryResources) = UrisOf("query", Ids(settled'.results))
            /\ pc = "getDashboards" => resource'.queryResources = resource.queryResources]_vars

\* Two queries had been listed when the request for the dashboards failed:
\* the list returned is empty
C30_Witness ==
    /\ resource.method = "resources/list"
    /\ pc = "done"
    /\ Len(resource.queryResources) = 2
    /\ IsRejected(settled)
    /\ resource.returned
    /\ resource.contents = <<>>

----------------------------------------------------------------------------
TypeOK ==
    /\ pc \in {"idle", "post", "poll", "fetch", "sleep", "done"}
    /\ now \in Nat
    /\ nPoll \in Nat

====
